---- MODULE Spec2Model ----
(***************************************************************************)
(* Voter credential and anonymous ballot engine of u-vote.                 *)
(*                                                                         *)
(* The relational store is the only shared state.  Every table holds its   *)
(* COMMITTED rows; a request in flight keeps what it has read and what it  *)
(* is about to write in its own record (procs[p]) until its transaction    *)
(* commits.  Statements run under PostgreSQL's default READ COMMITTED      *)
(* isolation: each statement reads the rows committed when it runs, and a  *)
(* SELECT ... FOR UPDATE waits for the row lock and then reads the latest  *)
(* committed version of the row.                                           *)
(***************************************************************************)
EXTENDS Integers, Sequences, FiniteSets, TLC

(***************************************************************************)
(* Bounds of the model.                                                    *)
(***************************************************************************)
NumProcs == 2          \* requests in flight at the same time
MaxTime == 1           \* the clock runs 0..MaxTime
TokenTTL == 0          \* whole clock ticks a token outlives its generation (168 hours)
MaxTokens == 3         \* voting_tokens rows ever generated

Procs == 1..NumProcs
ElectionIds == {1, 2}
VoterIds == {1, 2, 3}
\* voters 1 and 2 are on the roster of election 1, voter 3 of election 2
VoterElection(v) == IF v = 3 THEN 2 ELSE 1
\* date_of_birth of each voter (an abstract date)
VoterDob(v) == 70 + v
\* election_options: options 1, 2 belong to election 1, option 3 to election 2
OptionIds == {1, 2, 3}
OptionElection(o) == IF o = 3 THEN 2 ELSE 1
\* opaque random values: voting tokens 11.., ballot tokens 21.., receipts 31..
\* (the last voting token value is one that is never generated)
VotingTokenValues == 11..(11 + MaxTokens)
BallotTokenValues == {21, 22}

NULL == <<>>

VARIABLES
    now,               \* wall clock / CURRENT_TIMESTAMP
    roster,            \* ids of the voters that exist
    conc,              \* number of requests served at the same time (fixed by Init)
    elections,         \* elections: id -> [status, encryption_key]
    voters,            \* voters: id -> [election_id, date_of_birth, has_voted]
    voting_tokens,     \* sequence of voting_tokens rows, in id order
    voter_mfa,         \* sequence of voter_mfa rows (token values), in id order
    blind_tokens,      \* sequence of blind_tokens rows, in id order
    encrypted_ballots, \* set of committed encrypted_ballots rows (each has its id)
    ballot_seq,        \* encrypted_ballots_id_seq: last id handed out
    vote_receipts,     \* sequence of vote_receipts rows
    audit_log,         \* sequence of audit_log rows
    locks,             \* row locks held: set of <<proc, table, key>>
    procs,             \* the requests in flight
    issued,            \* history: the successful issueBallotCredential calls
    casts,             \* history: the successful castVote calls
    overlap,           \* history: elections on which two castVote transactions overlapped
    bridge_calls       \* history: token -> calls of the bridge made by the voter pages

vars == <<now, roster, conc, elections, voters, voting_tokens, voter_mfa, blind_tokens,
          encrypted_ballots, ballot_seq, vote_receipts, audit_log, locks, procs,
          issued, casts, overlap, bridge_calls>>

store == <<roster, conc, elections, voters, voting_tokens, voter_mfa, blind_tokens,
           encrypted_ballots, ballot_seq, vote_receipts, audit_log>>

history == <<issued, casts, overlap, bridge_calls>>

(***************************************************************************)
(* Requests in flight.                                                     *)
(***************************************************************************)
IdleProc ==
    [op |-> "idle", pc |-> "idle", svc |-> "none", tok |-> 0, dob |-> 0, bt |-> 0,
     opt |-> 0, eid |-> 0, ts |-> 0, targets |-> {}, existing |-> FALSE,
     key |-> 0, prev |-> NULL, row |-> NULL,
     flow |-> "none", checks |-> {},
     result |-> "none", out |-> 0]

\* a response is handed over before anything else runs: the finished request is
\* visible in exactly one state
Quiet == \A q \in Procs : procs[q].pc # "done"

\* request slots are interchangeable: a new request takes the lowest free slot
Idle(p) ==
    /\ Quiet
    /\ p <= conc
    /\ procs[p].op = "idle"
    /\ \A q \in Procs : q < p => procs[q].op # "idle"

At(p, op, pc) == Quiet /\ procs[p].op = op /\ procs[p].pc = pc

\* the request of p ends and its row locks stay
FinishHoldingLocks(p, res, outv) ==
    /\ procs' = [procs EXCEPT ![p].pc = "done", ![p].result = res, ![p].out = outv]
    /\ locks' = locks

\* the request of p ends: its transaction is over, its row locks are released
Finish(p, res, outv) ==
    /\ procs' = [procs EXCEPT ![p].pc = "done", ![p].result = res, ![p].out = outv]
    /\ locks' = {l \in locks : l[1] # p}

\* the statement without FOR UPDATE: it never waits
NoRowLock(p, table, key) == TRUE

\* a row lock (SELECT ... FOR UPDATE, UPDATE) on <<table, key>> can be taken by p
RowLockFree(p, table, key) ==
    \A l \in locks : (l[2] = table /\ l[3] = key) => l[1] = p

(***************************************************************************)
(* Init: the elections exist in draft with their options and key, the      *)
(* roster is loaded, nobody has a token yet.                               *)
(***************************************************************************)
InitWith(voterSet, slots) ==
    /\ now = 0
    /\ roster = voterSet
    /\ conc = slots
    /\ elections = [e \in ElectionIds |->
                      [status |-> IF \E v \in voterSet : VoterElection(v) = e
                                  THEN "draft" ELSE "absent",
                       encryption_key |-> 40 + e]]
    /\ voters = [v \in voterSet |->
                   [election_id |-> VoterElection(v), date_of_birth |-> VoterDob(v),
                    has_voted |-> FALSE]]
    /\ voting_tokens = <<>>
    /\ voter_mfa = <<>>
    /\ blind_tokens = <<>>
    /\ encrypted_ballots = {}
    /\ ballot_seq = 0
    /\ vote_receipts = <<>>
    /\ audit_log = <<>>
    /\ locks = {}
    /\ procs = [p \in Procs |-> IdleProc]
    /\ issued = {}
    /\ casts = {}
    /\ overlap = {}
    /\ bridge_calls = [t \in VotingTokenValues |-> 0]

Init == InitWith({1}, 1)

(***************************************************************************)
(* Voter management (external collaborator): add_voter inserts one row.    *)
(***************************************************************************)
VoterRow(v) ==
    [election_id |-> VoterElection(v), date_of_birth |-> VoterDob(v), has_voted |-> FALSE]

AddVoter(v) ==
    /\ Quiet
    /\ v \notin roster
    /\ elections[VoterElection(v)].status # "absent"
    /\ roster' = roster \cup {v}
    /\ voters' = [w \in roster \cup {v} |-> IF w = v THEN VoterRow(v) ELSE voters[w]]
    /\ UNCHANGED <<now, conc, elections, voting_tokens, voter_mfa, blind_tokens,
                   encrypted_ballots, ballot_seq, vote_receipts, audit_log, locks, procs,
                   history>>

(***************************************************************************)
(* Election administration (external collaborator): open and close.        *)
(* One UPDATE guarded by the current status; the UPDATE waits for a row    *)
(* lock on the election row.  auth-service also writes an audit row.       *)
(***************************************************************************)
AdminAuditRow(event, e, note) ==
    [event_type |-> event, election_id |-> e, actor_type |-> "organiser",
     actor_id |-> 1, detail |-> [note |-> note]]

SetStatus(e, from, to, svc, event, note) ==
    /\ Quiet
    /\ elections[e].status = from
    /\ RowLockFree(0, "elections", e)
    /\ elections' = [elections EXCEPT ![e].status = to]
    /\ audit_log' = IF svc = "auth"
                    THEN Append(audit_log, AdminAuditRow(event, e, note))
                    ELSE audit_log
    /\ UNCHANGED <<now, roster, conc, voters, voting_tokens, voter_mfa, blind_tokens,
                   encrypted_ballots, ballot_seq, vote_receipts, locks, procs, history>>

\* the UPDATE without status = 'draft' in its WHERE clause
OpenFromAnyStatus(e, svc) ==
    \E from \in {"draft", "closed"} :
        SetStatus(e, from, "open", svc, "election_opened", "election opened for voting")

\* UPDATE elections SET status = 'open' WHERE id = $1 AND ... AND status = 'draft'
OpenElection(e, svc) ==
    SetStatus(e, "draft", "open", svc, "election_opened", "election opened for voting")

CloseElection(e, svc) ==
    SetStatus(e, "open", "closed", svc, "election_closed", "election closed")

(***************************************************************************)
(* Token generation (external collaborator): one transaction that selects  *)
(* the voters of the election with no unused token and inserts a token for *)
(* each of them.                                                           *)
(***************************************************************************)
TokenIndex(t) ==
    IF \E i \in 1..Len(voting_tokens) : voting_tokens[i].token = t
    THEN CHOOSE i \in 1..Len(voting_tokens) : voting_tokens[i].token = t
    ELSE 0

\* voters of e with NOT EXISTS (an unused voting_tokens row)
VotersWithoutToken(e) ==
    {v \in roster :
        /\ voters[v].election_id = e
        /\ ~ \E i \in 1..Len(voting_tokens) :
                voting_tokens[i].voter_id = v /\ ~ voting_tokens[i].is_used}

\* generate_token_expiry: now + 168 hours
generate_token_expiry(clock) == clock + TokenTTL

RECURSIVE InsertTokens(_, _, _, _)
InsertTokens(rows, vs, e, clock) ==
    IF vs = {} THEN rows
    ELSE LET v == CHOOSE x \in vs : \A y \in vs : x <= y
         IN InsertTokens(
                Append(rows, [token |-> 10 + Len(rows) + 1, voter_id |-> v,
                              election_id |-> e,
                              expires_at |-> generate_token_expiry(clock),
                              is_used |-> FALSE, used_at |-> -1]),
                vs \ {v}, e, clock)

GenSelect(p, e) ==
    /\ Idle(p)
    /\ elections[e].status # "absent"
    /\ VotersWithoutToken(e) # {}
    /\ procs' = [procs EXCEPT ![p] = [IdleProc EXCEPT !.op = "generate", !.pc = "insert",
                                       !.eid = e, !.targets = VotersWithoutToken(e)]]
    /\ UNCHANGED <<now, store, locks, history>>

GenCommit(p) ==
    /\ At(p, "generate", "insert")
    /\ Len(voting_tokens) + Cardinality(procs[p].targets) <= MaxTokens
    /\ voting_tokens' = InsertTokens(voting_tokens, procs[p].targets, procs[p].eid, now)
    /\ Finish(p, "ok", Cardinality(procs[p].targets))
    /\ UNCHANGED <<now, roster, conc, elections, voters, voter_mfa, blind_tokens,
                   encrypted_ballots, ballot_seq, vote_receipts, audit_log, history>>

(***************************************************************************)
(* Token Lifecycle Manager.                                                *)
(***************************************************************************)
\* the checks without the comparison of the clock with expires_at
TokenCheckNoExpiry(t, clock) ==
    LET i == TokenIndex(t) IN
    IF i = 0 THEN "NotFound"
    ELSE IF voting_tokens[i].is_used THEN "AlreadyUsed"
    ELSE IF elections[voting_tokens[i].election_id].status # "open" THEN "ElectionNotOpen"
    ELSE "ok"

\* the checks with a token counted as expired at its expiry instant already
TokenCheckExpiredAtInstant(t, clock) ==
    LET i == TokenIndex(t) IN
    IF i = 0 THEN "NotFound"
    ELSE IF voting_tokens[i].is_used THEN "AlreadyUsed"
    ELSE IF clock >= voting_tokens[i].expires_at THEN "Expired"
    ELSE IF elections[voting_tokens[i].election_id].status # "open" THEN "ElectionNotOpen"
    ELSE "ok"

\* the checks with the expiry looked at before the is_used flag
TokenCheckExpiryFirst(t, clock) ==
    LET i == TokenIndex(t) IN
    IF i = 0 THEN "NotFound"
    ELSE IF clock > voting_tokens[i].expires_at THEN "Expired"
    ELSE IF voting_tokens[i].is_used THEN "AlreadyUsed"
    ELSE IF elections[voting_tokens[i].election_id].status # "open" THEN "ElectionNotOpen"
    ELSE "ok"

\* the checks every token operation runs on the joined voting_tokens/elections row
TokenCheck(t, clock) ==
    LET i == TokenIndex(t) IN
    IF i = 0 THEN "NotFound"
    ELSE IF voting_tokens[i].is_used THEN "AlreadyUsed"
    ELSE IF clock > voting_tokens[i].expires_at THEN "Expired"
    ELSE IF elections[voting_tokens[i].election_id].status # "open" THEN "ElectionNotOpen"
    ELSE "ok"

\* the checks without the comparison of the date of birth
IdentityCheckNoDob(t, dob, clock, svc) ==
    LET i == TokenIndex(t) IN
    IF TokenCheck(t, clock) # "ok" THEN TokenCheck(t, clock)
    ELSE IF svc = "auth" /\ voters[voting_tokens[i].voter_id].has_voted THEN "AlreadyVoted"
    ELSE "ok"

\* verify_identity: the token checks, then has_voted (auth-service only), then the date
IdentityCheck(t, dob, clock, svc) ==
    LET i == TokenIndex(t) IN
    IF TokenCheck(t, clock) # "ok" THEN TokenCheck(t, clock)
    ELSE IF svc = "auth" /\ voters[voting_tokens[i].voter_id].has_voted THEN "AlreadyVoted"
    ELSE IF voters[voting_tokens[i].voter_id].date_of_birth # dob THEN "IdentityMismatch"
    ELSE "ok"

\* the status code verify_identity raises for each refusal
VerifyStatus(res) ==
    IF res = "ok" THEN 200
    ELSE IF res = "NotFound" THEN 404
    ELSE IF res = "UniqueViolation" THEN 500
    ELSE IF res = "IdentityMismatch" THEN 403
    ELSE 400

\* the lookup keyed by the voter: a record of any token of the same voter counts
MfaOfSameVoter(t) ==
    \E i \in 1..Len(voter_mfa) :
        /\ TokenIndex(t) # 0
        /\ TokenIndex(voter_mfa[i]) # 0
        /\ voting_tokens[TokenIndex(voter_mfa[i])].voter_id =
              voting_tokens[TokenIndex(t)].voter_id

\* the lookup that never finds a record
NoMfaRecord(t) == FALSE

\* SELECT id FROM voter_mfa WHERE token = $1
MfaVerified(t) == \E i \in 1..Len(voter_mfa) : voter_mfa[i] = t

\* POST /mfa/verify reaches verify_identity on behalf of caller ("none": a client
\* of the API; otherwise the voter page of voting-service that made the call)
VerifyCall(p, t, dob, svc, caller) ==
    /\ LET res == IdentityCheck(t, dob, now, svc)
           q == [IdleProc EXCEPT !.op = "verify", !.svc = svc, !.tok = t, !.dob = dob,
                                 !.flow = caller]
       IN IF res # "ok"
          THEN procs' = [procs EXCEPT ![p] = [q EXCEPT !.pc = "done", !.result = res]]
          ELSE procs' = [procs EXCEPT ![p] = [q EXCEPT !.pc = "existing"]]
    /\ UNCHANGED <<now, store, locks, history>>

VerifySelect(p, t, dob, svc) ==
    /\ Idle(p)
    /\ VerifyCall(p, t, dob, svc, "none")

VerifyExisting(p) ==
    /\ At(p, "verify", "existing")
    /\ procs' = [procs EXCEPT ![p].pc = "insert", ![p].existing = MfaVerified(procs[p].tok)]
    /\ UNCHANGED <<now, store, locks, history>>

MfaInsertNeverRefused(t) == FALSE

\* voter_mfa is keyed by token value: an INSERT of a token that has a row fails
MfaInsertRefused(t) == MfaVerified(t)

\* if not existing: INSERT INTO voter_mfa (token) VALUES ($1); return verified
VerifyCommit(p) ==
    /\ At(p, "verify", "insert")
    /\ LET t == procs[p].tok
           refused == ~ procs[p].existing /\ MfaInsertRefused(t)
       IN /\ voter_mfa' = IF procs[p].existing \/ refused THEN voter_mfa
                          ELSE Append(voter_mfa, t)
          /\ Finish(p, IF refused THEN "UniqueViolation" ELSE "ok", 0)
    /\ UNCHANGED <<now, roster, conc, elections, voters, voting_tokens, blind_tokens,
                   encrypted_ballots, ballot_seq, vote_receipts, audit_log, history>>

(***************************************************************************)
(* Anonymity Bridge: issue_ballot_token.                                   *)
(***************************************************************************)
\* The request starts with SELECT ... FROM voting_tokens vt JOIN elections e ...
\* FOR UPDATE, which locks the row of each table in turn, the voting_tokens row
\* first.  A request that waits for that row holds nothing yet, so it is the same
\* as one that arrives later: it begins when it gets the row.
\* caller is the request that makes the call: IdleProc for a client of the API,
\* otherwise the voter page of voting-service with the checks it has made
IssueCall(p, t, caller) ==
    /\ TokenIndex(t) # 0 => RowLockFree(p, "voting_tokens", t)
    /\ procs' = [procs EXCEPT ![p] = [IdleProc EXCEPT !.op = "issue", !.pc = "select",
                                       !.svc = "auth", !.tok = t, !.ts = now,
                                       !.flow = caller.flow, !.checks = caller.checks]]
    /\ locks' = IF TokenIndex(t) = 0 THEN locks
                ELSE locks \cup {<<p, "voting_tokens", t>>}
    /\ UNCHANGED <<now, store, issued, casts, overlap>>

IssueBegin(p, t) ==
    /\ Idle(p)
    /\ IssueCall(p, t, IdleProc)
    /\ UNCHANGED bridge_calls

\* the elections row of the join, and the checks on the locked rows
IssueSelect(p) ==
    /\ At(p, "issue", "select")
    /\ LET t == procs[p].tok
           i == TokenIndex(t)
           res == TokenCheck(t, now)
       IN IF i = 0
          THEN /\ Finish(p, res, 0)
          ELSE /\ RowLockFree(p, "voting_tokens", t)
               /\ RowLockFree(p, "elections", voting_tokens[i].election_id)
               /\ IF res # "ok"
                  THEN Finish(p, res, 0)
                  ELSE /\ procs' = [procs EXCEPT ![p].pc = "mfa",
                                       ![p].eid = voting_tokens[i].election_id]
                       /\ locks' = locks \cup
                              {<<p, "voting_tokens", t>>,
                               <<p, "elections", voting_tokens[i].election_id>>}
    /\ UNCHANGED <<now, store, history>>

IssueMfa(p) ==
    /\ At(p, "issue", "mfa")
    /\ IF MfaVerified(procs[p].tok)
       THEN /\ procs' = [procs EXCEPT ![p].pc = "voter"]
            /\ locks' = locks
       ELSE Finish(p, "IdentityVerificationRequired", 0)
    /\ UNCHANGED <<now, store, history>>

\* the check left out: no voter is ever found to have voted
NeverVoted(v) == FALSE

\* if voter and voter["has_voted"]
VoterHasVoted(v) == voters[v].has_voted

\* a statement that locks every voting_tokens row of the voter instead
TokenRowsOfVoter(p) ==
    {<<"voting_tokens", voting_tokens[i].token>> :
        i \in {k \in 1..Len(voting_tokens) :
                 voting_tokens[k].voter_id = voting_tokens[TokenIndex(procs[p].tok)].voter_id}}

\* the row SELECT has_voted FROM voters WHERE id = $1 FOR UPDATE locks
IssueVoterLock(p) == {<<"voters", voting_tokens[TokenIndex(procs[p].tok)].voter_id>>}

\* SELECT has_voted FROM voters WHERE id = $1 FOR UPDATE, and the check
IssueVoter(p) ==
    /\ At(p, "issue", "voter")
    /\ LET v == voting_tokens[TokenIndex(procs[p].tok)].voter_id
       IN /\ \A w \in IssueVoterLock(p) : RowLockFree(p, w[1], w[2])
          /\ IF VoterHasVoted(v)
             THEN Finish(p, "AlreadyVoted", 0)
             ELSE /\ procs' = [procs EXCEPT ![p].pc = "write"]
                  /\ locks' = locks \cup {<<p, w[1], w[2]>> : w \in IssueVoterLock(p)}
    /\ UNCHANGED <<now, store, history>>

\* a blind_tokens row that keeps the voter of the token it was issued for
LinkedBlindTokenRow(value, vt_row) ==
    [ballot_token |-> value, election_id |-> vt_row.election_id,
     is_used |-> FALSE, used_at |-> -1, voter_id |-> vt_row.voter_id]

\* the blind_tokens row: the credential value and the election reference only
BlindTokenRow(value, vt_row) ==
    [ballot_token |-> value, election_id |-> vt_row.election_id,
     is_used |-> FALSE, used_at |-> -1]

\* an audit row that names the voter as its actor
IssueAuditRowOfVoter(vt_row) ==
    [event_type |-> "ballot_token_issued", election_id |-> vt_row.election_id,
     actor_type |-> "voter", actor_id |-> vt_row.voter_id,
     detail |-> [note |-> "blind token issued, voter identity separated"]]

\* INSERT INTO audit_log (event_type, election_id, actor_type, detail)
IssueAuditRow(vt_row) ==
    [event_type |-> "ballot_token_issued", election_id |-> vt_row.election_id,
     actor_type |-> "system", actor_id |-> 0,
     detail |-> [note |-> "blind token issued, voter identity separated"]]

\* generate_blind_ballot_token: fresh randomness, no input
generate_blind_ballot_token ==
    BallotTokenValues \ {blind_tokens[i].ballot_token : i \in 1..Len(blind_tokens)}

\* an UPDATE without its WHERE clause semantics: the flag of v set, every other cleared
MarkVotedOnly(v) == [w \in DOMAIN voters |-> [voters[w] EXCEPT !.has_voted = (w = v)]]

\* the UPDATE of voters left out
VoterUnmarked(v) == voters

\* UPDATE voters SET has_voted = TRUE WHERE id = $1
MarkVoted(v) == [voters EXCEPT ![v].has_voted = TRUE]

\* the two UPDATEs and two INSERTs of the bridge, and the commit
IssueCommit(p) ==
    /\ At(p, "issue", "write")
    /\ LET i == TokenIndex(procs[p].tok)
           vt_row == voting_tokens[i]
       IN \E value \in generate_blind_ballot_token :
            /\ voters' = MarkVoted(vt_row.voter_id)
            /\ voting_tokens' = [voting_tokens EXCEPT ![i].is_used = TRUE,
                                                      ![i].used_at = procs[p].ts]
            /\ blind_tokens' = Append(blind_tokens, BlindTokenRow(value, vt_row))
            /\ audit_log' = Append(audit_log, IssueAuditRow(vt_row))
            /\ issued' = issued \cup {[token |-> vt_row.token, voter_id |-> vt_row.voter_id,
                                       ballot_token |-> value,
                                       election_id |-> vt_row.election_id]}
            /\ Finish(p, "ok", value)
    /\ UNCHANGED <<now, roster, conc, elections, voter_mfa, encrypted_ballots, ballot_seq,
                   vote_receipts, casts, overlap, bridge_calls>>


(***************************************************************************)
(* Ballot Ledger: cast_vote (auth-service) and submit_vote (voting-service)*)
(* run the same statements on the same store.                              *)
(***************************************************************************)
\* pgp_sym_encrypt(plaintext, key): randomised, so every call has its own nonce
pgp_sym_encrypt(plain, key, nonce) == <<key, plain, nonce>>

pgp_sym_decrypt(cipher, key) == IF cipher[1] = key THEN cipher[2] ELSE -1

\* the hash the storage layer computes over the content of an inserted row
BallotHash(e, cipher, previous_hash, cast_at) == <<e, cipher, previous_hash, cast_at>>

BallotsOf(e) == {b \in encrypted_ballots : b.election_id = e}

\* SELECT ballot_hash ... WHERE election_id = $1 ORDER BY id DESC LIMIT 1
LatestBallot(e) == CHOOSE b \in BallotsOf(e) : \A c \in BallotsOf(e) : c.id <= b.id

\* the tip of the whole table: ORDER BY id DESC LIMIT 1 without the election
TipHashOfTable(e) ==
    IF encrypted_ballots = {} THEN NULL
    ELSE (CHOOSE b \in encrypted_ballots : \A c \in encrypted_ballots : c.id <= b.id).ballot_hash

\* the tip read from the wrong column
TipPreviousHash(e) == IF BallotsOf(e) = {} THEN NULL ELSE LatestBallot(e).previous_hash

\* previous_hash = prev["ballot_hash"] if prev else None
TipHash(e) == IF BallotsOf(e) = {} THEN NULL ELSE LatestBallot(e).ballot_hash

\* the encrypted_ballots rows of e ORDER BY id ASC
RECURSIVE SortById(_)
SortById(bs) ==
    IF bs = {} THEN <<>>
    ELSE LET b == CHOOSE x \in bs : \A y \in bs : x.id <= y.id
         IN <<b>> \o SortById(bs \ {b})

Chain(e) == SortById(BallotsOf(e))

\* the lookup by value alone
BlindIndexAnyElection(value, e) ==
    IF \E j \in 1..Len(blind_tokens) : blind_tokens[j].ballot_token = value
    THEN CHOOSE j \in 1..Len(blind_tokens) : blind_tokens[j].ballot_token = value
    ELSE 0

\* WHERE ballot_token = $1 AND election_id = $2
BlindIndex(value, e) ==
    IF \E j \in 1..Len(blind_tokens) :
          blind_tokens[j].ballot_token = value /\ blind_tokens[j].election_id = e
    THEN CHOOSE j \in 1..Len(blind_tokens) :
          blind_tokens[j].ballot_token = value /\ blind_tokens[j].election_id = e
    ELSE 0

\* generate_receipt_token: fresh randomness; one per inserted ballot
generate_receipt_token(n) == 30 + n

CastBegin(p, value, o, e, svc) ==
    /\ Idle(p)
    /\ elections[e].status # "absent"
    /\ procs' = [procs EXCEPT ![p] = [IdleProc EXCEPT !.op = "cast", !.pc = "select",
                                       !.svc = svc, !.bt = value, !.opt = o, !.eid = e,
                                       !.ts = now]]
    /\ overlap' = IF \E q \in Procs \ {p} :
                       procs[q].op = "cast" /\ procs[q].eid = e /\ procs[q].pc # "done"
                  THEN overlap \cup {e} ELSE overlap
    /\ UNCHANGED <<now, store, locks, issued, casts, bridge_calls>>

\* SELECT ... FROM blind_tokens WHERE ballot_token = $1 AND election_id = $2 FOR UPDATE
CastSelect(p) ==
    /\ At(p, "cast", "select")
    /\ LET j == BlindIndex(procs[p].bt, procs[p].eid)
       IN IF j = 0
          THEN Finish(p, "InvalidCredential", 0)
          ELSE /\ RowLockFree(p, "blind_tokens", procs[p].bt)
               /\ IF blind_tokens[j].is_used
                  THEN Finish(p, "AlreadyUsed", 0)
                  ELSE /\ procs' = [procs EXCEPT ![p].pc = "election"]
                       /\ locks' = locks \cup {<<p, "blind_tokens", procs[p].bt>>}
    /\ UNCHANGED <<now, store, history>>

\* SELECT status, encryption_key FROM elections WHERE id = $1
CastElection(p) ==
    /\ At(p, "cast", "election")
    /\ IF elections[procs[p].eid].status # "open"
       THEN Finish(p, "ElectionNotOpen", 0)
       ELSE /\ procs' = [procs EXCEPT ![p].pc = "option",
                                      ![p].key = elections[procs[p].eid].encryption_key]
            /\ locks' = locks
    /\ UNCHANGED <<now, store, history>>

\* the key check before the option lookup
CastOptionKeyFirst(p) ==
    /\ At(p, "cast", "option")
    /\ IF procs[p].key = 0
       THEN Finish(p, "EncryptionNotConfigured", 0)
       ELSE IF OptionElection(procs[p].opt) # procs[p].eid
       THEN Finish(p, "InvalidOption", 0)
       ELSE /\ procs' = [procs EXCEPT ![p].pc = "tip"]
            /\ locks' = locks
    /\ UNCHANGED <<now, store, history>>

\* the key check alone: any option id is accepted
CastOptionAny(p) ==
    /\ At(p, "cast", "option")
    /\ IF procs[p].key = 0
       THEN Finish(p, "EncryptionNotConfigured", 0)
       ELSE /\ procs' = [procs EXCEPT ![p].pc = "tip"]
            /\ locks' = locks
    /\ UNCHANGED <<now, store, history>>

\* SELECT id FROM election_options WHERE id = $1 AND election_id = $2; the key check
CastOption(p) ==
    /\ At(p, "cast", "option")
    /\ IF OptionElection(procs[p].opt) # procs[p].eid
       THEN Finish(p, "InvalidOption", 0)
       ELSE IF procs[p].key = 0
       THEN Finish(p, "EncryptionNotConfigured", 0)
       ELSE /\ procs' = [procs EXCEPT ![p].pc = "tip"]
            /\ locks' = locks
    /\ UNCHANGED <<now, store, history>>

\* the read of the chain tip
CastTip(p) ==
    /\ At(p, "cast", "tip")
    /\ procs' = [procs EXCEPT ![p].pc = "insert", ![p].prev = TipHash(procs[p].eid)]
    /\ UNCHANGED <<now, store, locks, history>>

\* INSERT INTO encrypted_ballots: the row takes the next id and its hash
BallotRow(n, e, o, key, previous_hash, cast_at) ==
    [id |-> n, election_id |-> e,
     encrypted_vote |-> pgp_sym_encrypt(o, key, n),
     previous_hash |-> previous_hash,
     ballot_hash |-> BallotHash(e, pgp_sym_encrypt(o, key, n), previous_hash, cast_at),
     receipt_token |-> generate_receipt_token(n),
     cast_at |-> cast_at]

CastInsert(p) ==
    /\ At(p, "cast", "insert")
    /\ ballot_seq' = ballot_seq + 1
    /\ procs' = [procs EXCEPT ![p].pc = "commit",
                    ![p].row = BallotRow(ballot_seq + 1, procs[p].eid, procs[p].opt,
                                         procs[p].key, procs[p].prev, procs[p].ts)]
    /\ UNCHANGED <<now, roster, conc, elections, voters, voting_tokens, voter_mfa, blind_tokens,
                   encrypted_ballots, vote_receipts, audit_log, locks, history>>

\* a receipt that records the hash of the entry before the ballot
ReceiptRowOfTip(b) ==
    [election_id |-> b.election_id, receipt_token |-> b.receipt_token,
     ballot_hash |-> b.previous_hash, cast_at |-> b.cast_at]

\* SELECT ballot_hash FROM encrypted_ballots WHERE receipt_token = $1, then
\* INSERT INTO vote_receipts (election_id, receipt_token, ballot_hash)
ReceiptRow(b) ==
    [election_id |-> b.election_id, receipt_token |-> b.receipt_token,
     ballot_hash |-> b.ballot_hash, cast_at |-> b.cast_at]

CastAuditRow(b) ==
    [event_type |-> "ballot_cast", election_id |-> b.election_id,
     actor_type |-> "voter", actor_id |-> 0,
     detail |-> [receipt_token |-> b.receipt_token,
                 note |-> "encrypted ballot cast anonymously"]]

\* the UPDATE of blind_tokens left out
LeaveCredential(j, ts) == blind_tokens

\* UPDATE blind_tokens SET is_used = TRUE, used_at = CURRENT_TIMESTAMP WHERE id = $1
MarkCredentialUsed(j, ts) ==
    [blind_tokens EXCEPT ![j].is_used = TRUE, ![j].used_at = ts]

\* a write that keeps only the newest row
ReplaceBallots(b) == {b}

\* INSERT INTO encrypted_ballots: the committed rows and the new one
InsertBallot(b) == encrypted_ballots \cup {b}

\* the receipt, the UPDATE of blind_tokens, the audit row, and the commit
CastCommit(p) ==
    /\ At(p, "cast", "commit")
    /\ LET b == procs[p].row
           j == BlindIndex(procs[p].bt, procs[p].eid)
       IN /\ encrypted_ballots' = InsertBallot(b)
          /\ vote_receipts' = Append(vote_receipts, ReceiptRow(b))
          /\ blind_tokens' = MarkCredentialUsed(j, procs[p].ts)
          /\ audit_log' = Append(audit_log, CastAuditRow(b))
          /\ casts' = casts \cup {[ballot_token |-> procs[p].bt, id |-> b.id,
                                   election_id |-> b.election_id,
                                   option_id |-> procs[p].opt,
                                   receipt_token |-> b.receipt_token]}
          /\ Finish(p, "ok", b.receipt_token)
    /\ UNCHANGED <<now, roster, conc, elections, voters, voting_tokens, voter_mfa, ballot_seq,
                   issued, overlap, bridge_calls>>


(***************************************************************************)
(* The clock.                                                              *)
(***************************************************************************)
Tick ==
    /\ Quiet
    /\ now < MaxTime
    /\ now' = now + 1
    /\ UNCHANGED <<store, locks, procs, history>>

\* a finished request leaves; its slot serves the next request.  A call made by
\* a voter page of voting-service is answered to that page, which goes on.
Return(p) ==
    /\ procs[p].pc = "done"
    /\ procs[p].flow # "none" => procs[p].op = procs[p].flow
    /\ procs' = [procs EXCEPT ![p] = IdleProc]
    /\ UNCHANGED <<now, store, locks, history>>

(***************************************************************************)
(* The system: requests of every kind, interleaved statement by statement. *)
(***************************************************************************)
Services == {"auth", "voting"}

Admin ==
    \/ Tick
    \/ \E e \in ElectionIds : OpenElection(e, "auth")
    \/ \E e \in ElectionIds : CloseElection(e, "auth")
    \/ \E p \in Procs : Return(p)

Generate ==
    \/ \E p \in Procs, e \in ElectionIds : GenSelect(p, e)
    \/ \E p \in Procs : GenCommit(p)

Verify ==
    \/ \E p \in Procs, t \in VotingTokenValues, dob \in {VoterDob(v) : v \in roster}, svc \in {"auth", "voter"} :
          VerifySelect(p, t, dob, svc)
    \/ \E p \in Procs : VerifyExisting(p)
    \/ \E p \in Procs : VerifyCommit(p)

Issue ==
    \/ \E p \in Procs, t \in VotingTokenValues : IssueBegin(p, t)
    \/ \E p \in Procs : IssueSelect(p)
    \/ \E p \in Procs : IssueMfa(p)
    \/ \E p \in Procs : IssueVoter(p)
    \/ \E p \in Procs : IssueCommit(p)

CastSteps ==
    \/ \E p \in Procs : CastSelect(p)
    \/ \E p \in Procs : CastElection(p)
    \/ \E p \in Procs : CastOption(p)
    \/ \E p \in Procs : CastTip(p)
    \/ \E p \in Procs : CastInsert(p)
    \/ \E p \in Procs : CastCommit(p)

Cast ==
    \/ \E p \in Procs, value \in BallotTokenValues, o \in OptionIds, e \in ElectionIds,
          svc \in Services : CastBegin(p, value, o, e, svc)
    \/ CastSteps

Roll == \E v \in VoterIds : AddVoter(v)

\* the whole voter journey, one request at a time, on a roll that grows
Next == Admin \/ Roll \/ Generate \/ Verify \/ Issue \/ Cast

Spec == Init /\ [][Next]_vars

\* the bridge under concurrent requests: token generation, MFA and issuance for
\* one voter, who ends up holding several tokens
InitBridge == InitWith({1}, NumProcs)

NextBridge == Admin \/ Generate \/ Verify \/ Issue

SpecBridge == InitBridge /\ [][NextBridge]_vars

\* the same within one instant of the clock, followed to the ballot: the
\* credential is cast through auth-service
NextVoter ==
    \/ \E e \in ElectionIds : OpenElection(e, "auth")
    \/ \E e \in ElectionIds : CloseElection(e, "auth")
    \/ \E p \in Procs : Return(p)
    \/ Generate \/ Verify \/ Issue
    \/ \E p \in Procs, value \in BallotTokenValues : CastBegin(p, value, 1, 1, "auth")
    \/ CastSteps

SpecVoter == InitBridge /\ [][NextVoter]_vars

\* the ledger under concurrent requests.  It starts where the voter journey has
\* brought voters 1 and 2 of election 1 to the ballot: the election is open,
\* both received a token, proved their identity and were issued a credential.
LedgerTokens ==
    LET rows == InsertTokens(<<>>, {1, 2}, 1, 0)
    IN [i \in 1..2 |-> [rows[i] EXCEPT !.is_used = TRUE, !.used_at = 0]]

LedgerStart ==
    /\ now = 0
    /\ roster = {1, 2}
    /\ elections = [e \in ElectionIds |->
                      [status |-> IF e = 1 THEN "open" ELSE "absent",
                       encryption_key |-> 40 + e]]
    /\ voters = [v \in {1, 2} |->
                   [election_id |-> 1, date_of_birth |-> VoterDob(v), has_voted |-> TRUE]]
    /\ voting_tokens = LedgerTokens
    /\ voter_mfa = <<11, 12>>
    /\ blind_tokens = <<BlindTokenRow(21, LedgerTokens[1]), BlindTokenRow(22, LedgerTokens[2])>>
    /\ encrypted_ballots = {}
    /\ ballot_seq = 0
    /\ vote_receipts = <<>>
    /\ audit_log = <<AdminAuditRow("election_opened", 1, "election opened for voting"),
                     IssueAuditRow(LedgerTokens[1]), IssueAuditRow(LedgerTokens[2])>>
    /\ locks = {}
    /\ procs = [p \in Procs |-> IdleProc]
    /\ issued = {[token |-> 10 + v, voter_id |-> v, ballot_token |-> 20 + v,
                  election_id |-> 1] : v \in {1, 2}}
    /\ casts = {}
    /\ overlap = {}
    /\ bridge_calls = [t \in VotingTokenValues |-> 0]

InitLedger == LedgerStart /\ conc = NumProcs

NextLedger ==
    \/ Tick
    \/ \E e \in ElectionIds : CloseElection(e, "auth")
    \/ \E p \in Procs : Return(p)
    \/ Cast

SpecLedger == InitLedger /\ [][NextLedger]_vars

(***************************************************************************)
(* Receipt Verifier: verify_receipt, one SELECT on vote_receipts joined     *)
(* with elections, outside any transaction.                                *)
(***************************************************************************)
\* the receipt values a caller may present; the last one is never handed out
ReceiptTokenValues == {generate_receipt_token(n) : n \in 1..(Cardinality(BallotTokenValues) + 1)}

ReceiptIndex(r) ==
    IF \E k \in 1..Len(vote_receipts) : vote_receipts[k].receipt_token = r
    THEN CHOOSE k \in 1..Len(vote_receipts) : vote_receipts[k].receipt_token = r
    ELSE 0

\* the response: the receipt row that was found (the election title is left out)
VerifyReceipt(p, r, svc) ==
    /\ Idle(p)
    /\ LET k == ReceiptIndex(r)
           q == [IdleProc EXCEPT !.op = "receipt", !.pc = "done", !.svc = svc, !.tok = r]
       IN procs' = [procs EXCEPT ![p] =
                       IF k = 0 THEN [q EXCEPT !.result = "NotFound"]
                       ELSE [q EXCEPT !.result = "ok", !.row = vote_receipts[k]]]
    /\ UNCHANGED <<now, store, locks, history>>

(***************************************************************************)
(* Audit Verifier: get_audit_trail.  Two SELECTs on one connection without  *)
(* a transaction, then the walk over the fetched rows.  auth-service reads  *)
(* encrypted_ballots; results-service reads the votes table, into which no  *)
(* handler of the repository inserts.                                      *)
(***************************************************************************)
\* SELECT id, vote_hash, previous_hash, cast_at FROM votes WHERE election_id = $1
VotesOf(e) == <<>>

\* the rows the endpoint of svc fetches, ORDER BY id ASC
AuditRows(svc, e) == IF svc = "auth" THEN Chain(e) ELSE VotesOf(e)

\* hash_chain_valid = True; for i, b in enumerate(ballots): if i > 0 and
\* b["previous_hash"] != ballots[i - 1]["ballot_hash"]: hash_chain_valid = False
RECURSIVE hash_chain_valid(_, _)
hash_chain_valid(rows, i) ==
    IF i > Len(rows) THEN TRUE
    ELSE IF i > 1 /\ rows[i].previous_hash # rows[i - 1].ballot_hash THEN FALSE
    ELSE hash_chain_valid(rows, i + 1)

AuditEntries(rows) ==
    [i \in 1..Len(rows) |->
        [ballot_id |-> rows[i].id, ballot_hash |-> rows[i].ballot_hash,
         previous_hash |-> rows[i].previous_hash, cast_at |-> rows[i].cast_at,
         sequence |-> i]]

AuditResponse(e, rows) ==
    [election_id |-> e, total_ballots |-> Len(rows),
     hash_chain_valid |-> hash_chain_valid(rows, 1), audit_trail |-> AuditEntries(rows)]

\* the check that refuses elections in draft only
AuditRefusalInDraft(status) ==
    IF status = "absent" THEN "NotFound"
    ELSE IF status = "draft" THEN "AuditNotAvailable"
    ELSE "ok"

\* if not election: 404; if election["status"] != "closed": 403
AuditRefusal(status) ==
    IF status = "absent" THEN "NotFound"
    ELSE IF status # "closed" THEN "AuditNotAvailable"
    ELSE "ok"

\* SELECT status FROM elections WHERE id = $1, and the two refusals
AuditBegin(p, e, svc) ==
    /\ Idle(p)
    /\ LET q == [IdleProc EXCEPT !.op = "audit", !.svc = svc, !.eid = e]
           res == AuditRefusal(elections[e].status)
       IN procs' = [procs EXCEPT ![p] =
                       IF res # "ok" THEN [q EXCEPT !.pc = "done", !.result = res]
                       ELSE [q EXCEPT !.pc = "ballots"]]
    /\ UNCHANGED <<now, store, locks, history>>

\* the SELECT of the rows and the walk
AuditRead(p) ==
    /\ At(p, "audit", "ballots")
    /\ procs' = [procs EXCEPT ![p].pc = "done", ![p].result = "ok",
                    ![p].row = AuditResponse(procs[p].eid, AuditRows(procs[p].svc, procs[p].eid))]
    /\ UNCHANGED <<now, store, locks, history>>

\* create_election: the election row in draft and its audit row, in one transaction
CreateElection(e) ==
    /\ Quiet
    /\ elections[e].status = "absent"
    /\ elections' = [elections EXCEPT ![e].status = "draft"]
    /\ audit_log' = Append(audit_log,
                          [event_type |-> "election_created", election_id |-> e,
                           actor_type |-> "organiser", actor_id |-> 1,
                           detail |-> [title |-> e]])
    /\ UNCHANGED <<now, roster, conc, voters, voting_tokens, voter_mfa, blind_tokens,
                   encrypted_ballots, ballot_seq, vote_receipts, locks, procs, history>>

Receipt == \E p \in Procs, r \in ReceiptTokenValues, svc \in Services : VerifyReceipt(p, r, svc)

Audit ==
    \/ \E p \in Procs, e \in ElectionIds, svc \in {"auth", "results"} : AuditBegin(p, e, svc)
    \/ \E p \in Procs : AuditRead(p)

\* the ledger and its two verifiers under concurrent requests, within one
\* instant of the clock: casts through auth-service on election 1, a second
\* election created, opened and closed, receipt checks and audits
NextAudit ==
    \/ \E e \in ElectionIds : CreateElection(e)
    \/ \E e \in ElectionIds : OpenElection(e, "auth")
    \/ \E e \in ElectionIds : CloseElection(e, "auth")
    \/ \E p \in Procs : Return(p)
    \/ \E p \in Procs, value \in BallotTokenValues : CastBegin(p, value, 1, 1, "auth")
    \/ CastSteps
    \/ Receipt
    \/ Audit

SpecAudit == InitLedger /\ [][NextAudit]_vars

\* an UPDATE run directly against the database (psql): the ciphertext of one
\* stored ballot of a closed election is replaced, every hash column is left
\* as it is
Tamper(id, o) ==
    /\ Quiet
    /\ \E b \in encrypted_ballots :
          /\ b.id = id
          /\ elections[b.election_id].status = "closed"
          /\ OptionElection(o) = b.election_id
          /\ pgp_sym_decrypt(b.encrypted_vote, elections[b.election_id].encryption_key) # o
          /\ encrypted_ballots' =
                (encrypted_ballots \ {b}) \cup
                {[b EXCEPT !.encrypted_vote =
                     pgp_sym_encrypt(o, elections[b.election_id].encryption_key, 0)]}
    /\ UNCHANGED <<now, roster, conc, elections, voters, voting_tokens, voter_mfa,
                   blind_tokens, ballot_seq, vote_receipts, audit_log, locks, procs, history>>

\* casts one after the other, the close, then the database is tampered with
\* and audited
InitTamper == LedgerStart /\ conc = 1

NextTamper ==
    \/ \E e \in ElectionIds : CloseElection(e, "auth")
    \/ \E p \in Procs : Return(p)
    \/ \E p \in Procs, value \in BallotTokenValues, o \in OptionIds :
          CastBegin(p, value, o, 1, "auth")
    \/ CastSteps
    \/ Audit
    \/ \E id \in 1..Cardinality(BallotTokenValues), o \in OptionIds : Tamper(id, o)

SpecTamper == InitTamper /\ [][NextTamper]_vars

(***************************************************************************)
(* validate_voting_token (auth-service) and validate_token (voter-service): *)
(* one SELECT on voting_tokens joined with elections, then the checks.     *)
(***************************************************************************)
ValidateToken(p, t, svc) ==
    /\ Idle(p)
    /\ LET res == TokenCheck(t, now)
           q == [IdleProc EXCEPT !.op = "validate", !.pc = "done", !.svc = svc, !.tok = t,
                                 !.result = res]
       IN procs' = [procs EXCEPT ![p] =
                       IF res # "ok" THEN q
                       ELSE [q EXCEPT !.row =
                                [valid |-> TRUE,
                                 election_id |-> voting_tokens[TokenIndex(t)].election_id,
                                 voter_id |-> voting_tokens[TokenIndex(t)].voter_id]]]
    /\ UNCHANGED <<now, store, locks, history>>

Validate ==
    \E p \in Procs, t \in VotingTokenValues, svc \in {"auth", "voter"} : ValidateToken(p, t, svc)

(***************************************************************************)
(* get_results: the status of the election, then the tally.  auth-service   *)
(* decrypts the encrypted_ballots rows; results-service counts the rows of  *)
(* the votes table.                                                        *)
(***************************************************************************)
\* the check that refuses elections in draft only
ResultsRefusalInDraft(status) ==
    IF status = "absent" THEN "NotFound"
    ELSE IF status = "draft" THEN "ResultsNotAvailable"
    ELSE "ok"

\* if not election: 404; if election["status"] != "closed": 403
ResultsRefusal(status) ==
    IF status = "absent" THEN "NotFound"
    ELSE IF status # "closed" THEN "ResultsNotAvailable"
    ELSE "ok"

\* the status code of the response of get_results
ResultsStatus(res) ==
    IF res = "NotFound" THEN 404
    ELSE IF res = "ResultsNotAvailable" THEN 403
    ELSE 200

\* tally[oid] over SELECT pgp_sym_decrypt(encrypted_vote, $1) ... WHERE election_id = $2
Tally(e, o) ==
    Cardinality({b \in BallotsOf(e) :
                    pgp_sym_decrypt(b.encrypted_vote, elections[e].encryption_key) = o})

ResultsResponse(svc, e) ==
    LET options == {o \in OptionIds : OptionElection(o) = e} IN
    [election |-> [id |-> e, status |-> elections[e].status],
     total_votes |-> IF svc = "auth" THEN Cardinality(BallotsOf(e)) ELSE Len(VotesOf(e)),
     total_voters |-> Cardinality({v \in roster : voters[v].election_id = e}),
     results |-> [o \in options |-> IF svc = "auth" THEN Tally(e, o) ELSE 0]]

ResultsBegin(p, e, svc) ==
    /\ Idle(p)
    /\ LET q == [IdleProc EXCEPT !.op = "results", !.svc = svc, !.eid = e]
           res == ResultsRefusal(elections[e].status)
       IN procs' = [procs EXCEPT ![p] =
                       IF res # "ok" THEN [q EXCEPT !.pc = "done", !.result = res]
                       ELSE [q EXCEPT !.pc = "tally"]]
    /\ UNCHANGED <<now, store, locks, history>>

ResultsRead(p) ==
    /\ At(p, "results", "tally")
    /\ procs' = [procs EXCEPT ![p].pc = "done", ![p].result = "ok",
                    ![p].row = ResultsResponse(procs[p].svc, procs[p].eid)]
    /\ UNCHANGED <<now, store, locks, history>>

Results ==
    \/ \E p \in Procs, e \in ElectionIds, svc \in {"auth", "results"} : ResultsBegin(p, e, svc)
    \/ \E p \in Procs : ResultsRead(p)

\* every operation of the core on one voter of one election, one request at a
\* time: the journey from the token to the receipt, the read-only endpoints and
\* the clock
NextCore ==
    \/ Admin \/ Generate \/ Validate
    \/ \E p \in Procs, t \in VotingTokenValues, dob \in {VoterDob(v) : v \in {1, 2}},
          svc \in {"auth", "voter"} : VerifySelect(p, t, dob, svc)
    \/ \E p \in Procs : VerifyExisting(p)
    \/ \E p \in Procs : VerifyCommit(p)
    \/ Issue \/ Cast \/ Receipt \/ Audit \/ Results

SpecCore == Init /\ [][NextCore]_vars

(***************************************************************************)
(* The ballot box of two elections.  Voter 1 of election 1 and voter 3 of  *)
(* election 2 have been issued their credentials (21 and 22).  Election 1  *)
(* was created through auth-service, which generates its encryption key;   *)
(* election 2 either the same way or through election-service, whose       *)
(* create_election inserts no encryption_key, and it is open or has been   *)
(* closed since.                                                           *)
(***************************************************************************)
CastTokens ==
    LET rows == InsertTokens(InsertTokens(<<>>, {1}, 1, 0), {3}, 2, 0)
    IN [i \in 1..2 |-> [rows[i] EXCEPT !.is_used = TRUE, !.used_at = 0]]

\* the audit rows auth-service wrote for an election it manages
ElectionAuditRows(e) ==
    <<AdminAuditRow("election_opened", e, "election opened for voting")>>

CastStartWith(status2, key2, slots) ==
    /\ now = 0
    /\ roster = {1, 3}
    /\ conc = slots
    /\ elections = [e \in ElectionIds |->
                      IF e = 1 THEN [status |-> "open", encryption_key |-> 40 + 1]
                      ELSE [status |-> status2, encryption_key |-> key2]]
    /\ voters = [v \in {1, 3} |->
                   [election_id |-> VoterElection(v), date_of_birth |-> VoterDob(v),
                    has_voted |-> TRUE]]
    /\ voting_tokens = CastTokens
    /\ voter_mfa = <<11, 12>>
    /\ blind_tokens = <<BlindTokenRow(21, CastTokens[1]), BlindTokenRow(22, CastTokens[2])>>
    /\ encrypted_ballots = {}
    /\ ballot_seq = 0
    /\ vote_receipts = <<>>
    /\ audit_log = ElectionAuditRows(1)
                    \o (IF key2 # 0 THEN ElectionAuditRows(2) ELSE <<>>)
                    \o <<IssueAuditRow(CastTokens[1]), IssueAuditRow(CastTokens[2])>>
                    \o (IF key2 # 0 /\ status2 = "closed"
                        THEN <<AdminAuditRow("election_closed", 2, "election closed")>>
                        ELSE <<>>)
    /\ locks = {}
    /\ procs = [p \in Procs |-> IdleProc]
    /\ issued = {[token |-> 11, voter_id |-> 1, ballot_token |-> 21, election_id |-> 1],
                 [token |-> 12, voter_id |-> 3, ballot_token |-> 22, election_id |-> 2]}
    /\ casts = {}
    /\ overlap = {}
    /\ bridge_calls = [t \in VotingTokenValues |-> 0]

CastStart(status2, key2) == CastStartWith(status2, key2, 1)

InitCast == \E status2 \in {"open", "closed"}, key2 \in {0, 40 + 2} : CastStart(status2, key2)

NextCast ==
    \/ Tick
    \/ \E p \in Procs : Return(p)
    \/ Cast

SpecCast == InitCast /\ [][NextCast]_vars

\* two open elections with their keys, casts on both at the same time, and their
\* closing
InitChains == CastStartWith("open", 40 + 2, NumProcs)

NextChains ==
    \/ \E e \in ElectionIds : CloseElection(e, "auth")
    \/ \E p \in Procs : Return(p)
    \/ Cast

SpecChains == InitChains /\ [][NextChains]_vars

(***************************************************************************)
(* Issuance and casting side by side, under fair scheduling.  Election 1   *)
(* is open and stays open; voter 1 holds credential 21, voter 2 has proved *)
(* their identity with token 12 and has not been to the bridge yet.        *)
(***************************************************************************)
LiveTokens ==
    LET rows == InsertTokens(<<>>, {1, 2}, 1, 0)
    IN [i \in 1..2 |-> IF i = 1 THEN [rows[i] EXCEPT !.is_used = TRUE, !.used_at = 0]
                       ELSE rows[i]]

InitLive ==
    /\ now = 0
    /\ roster = {1, 2}
    /\ conc = NumProcs
    /\ elections = [e \in ElectionIds |->
                      [status |-> IF e = 1 THEN "open" ELSE "absent",
                       encryption_key |-> 40 + e]]
    /\ voters = [v \in {1, 2} |->
                   [election_id |-> 1, date_of_birth |-> VoterDob(v), has_voted |-> (v = 1)]]
    /\ voting_tokens = LiveTokens
    /\ voter_mfa = <<11, 12>>
    /\ blind_tokens = <<BlindTokenRow(21, LiveTokens[1])>>
    /\ encrypted_ballots = {}
    /\ ballot_seq = 0
    /\ vote_receipts = <<>>
    /\ audit_log = <<AdminAuditRow("election_opened", 1, "election opened for voting"),
                     IssueAuditRow(LiveTokens[1])>>
    /\ locks = {}
    /\ procs = [p \in Procs |-> IdleProc]
    /\ issued = {[token |-> 11, voter_id |-> 1, ballot_token |-> 21, election_id |-> 1]}
    /\ casts = {}
    /\ overlap = {}
    /\ bridge_calls = [t \in VotingTokenValues |-> 0]

\* the statements of the request in slot p
RequestStep(p) ==
    \/ IssueSelect(p) \/ IssueMfa(p) \/ IssueVoter(p) \/ IssueCommit(p)
    \/ CastSelect(p) \/ CastElection(p) \/ CastOption(p) \/ CastTip(p)
    \/ CastInsert(p) \/ CastCommit(p)

NextLive ==
    \/ \E p \in Procs : Return(p)
    \/ Issue
    \/ Cast

\* every request in flight keeps running: its connection executes the next
\* statement, a row lock it waits for is granted to it when its turn comes
\* (PostgreSQL queues the waiters of a row), and its response is delivered
FairLive ==
    \A p \in Procs : SF_vars(RequestStep(p)) /\ WF_vars(Return(p))

SpecLive == InitLive /\ [][NextLive]_vars /\ FairLive

(***************************************************************************)
(* The voter pages of voting-service.  Each page is one request of the     *)
(* voter's browser; it calls auth-service over HTTP, one call at a time,   *)
(* and every call is a request of its own there.                           *)
(*   GET  /vote/{token}          vote_landing                              *)
(*   POST /vote/verify-identity  verify_identity                           *)
(***************************************************************************)
VoterPages == {"vote_landing", "verify_identity"}

\* the page ends with a template response
Rendered(p, template) ==
    procs' = [procs EXCEPT ![p].op = procs[p].flow, ![p].pc = "done",
                           ![p].result = template]

\* resp = GET /tokens/{token}/validate; if resp.status_code != 200: error page
vote_landing(p, t) ==
    /\ Idle(p)
    /\ LET q == [IdleProc EXCEPT !.op = "vote_landing", !.svc = "voting", !.tok = t,
                                 !.flow = "vote_landing"]
       IN procs' = [procs EXCEPT ![p] =
                       IF TokenCheck(t, now) # "ok"
                       THEN [q EXCEPT !.pc = "done", !.result = "vote_error.html"]
                       ELSE [q EXCEPT !.pc = "mfa_status", !.checks = {"validate"},
                                      !.eid = voting_tokens[TokenIndex(t)].election_id]]
    /\ UNCHANGED <<now, store, locks, history>>

\* a landing page that asks for the ballot token whatever /mfa/status answers
LandingWithoutMfa(p) ==
    /\ At(p, "vote_landing", "mfa_status")
    /\ procs' = [procs EXCEPT ![p].pc = "acquire"]
    /\ UNCHANGED <<now, store, locks, history>>

\* mfa_resp = GET /mfa/status; if 200 and mfa_verified: _acquire_ballot_and_show,
\* otherwise the identity form
LandingMfaStatus(p) ==
    /\ At(p, "vote_landing", "mfa_status")
    /\ IF MfaVerified(procs[p].tok)
       THEN procs' = [procs EXCEPT ![p].pc = "acquire",
                                   ![p].checks = procs[p].checks \cup {"mfa"}]
       ELSE Rendered(p, "verify_identity.html")
    /\ UNCHANGED <<now, store, locks, history>>

\* verify_resp = POST /mfa/verify
verify_identity(p, t, dob) ==
    /\ Idle(p)
    /\ VerifyCall(p, t, dob, "auth", "verify_identity")

\* if verify_resp.status_code != 200: the identity form with the error
VerifyResponse(p) ==
    /\ procs[p].op = "verify" /\ procs[p].pc = "done" /\ procs[p].flow = "verify_identity"
    /\ IF procs[p].result # "ok"
       THEN Rendered(p, "verify_identity.html")
       ELSE procs' = [procs EXCEPT ![p].op = "verify_identity", ![p].pc = "validate",
                                   ![p].result = "none", ![p].checks = {"mfa"}]
    /\ UNCHANGED <<now, store, locks, history>>

\* validate_resp = GET /tokens/{token}/validate; if not 200: error page
VerifyIdentityValidate(p) ==
    /\ At(p, "verify_identity", "validate")
    /\ IF TokenCheck(procs[p].tok, now) # "ok"
       THEN Rendered(p, "vote_error.html")
       ELSE procs' = [procs EXCEPT ![p].pc = "acquire",
                         ![p].checks = procs[p].checks \cup {"validate"},
                         ![p].eid = voting_tokens[TokenIndex(procs[p].tok)].election_id]
    /\ UNCHANGED <<now, store, locks, history>>

\* _acquire_ballot_and_show: issue_resp = POST /ballot-token/issue
acquire_ballot_and_show(p) ==
    /\ Quiet
    /\ procs[p].op \in VoterPages /\ procs[p].pc = "acquire"
    /\ IssueCall(p, procs[p].tok, procs[p])
    /\ bridge_calls' = [bridge_calls EXCEPT ![procs[p].tok] = @ + 1]

\* if issue_resp.status_code != 200: error page; otherwise the ballot with the
\* election of the credential (elections rows are never deleted)
IssueResponse(p) ==
    /\ procs[p].op = "issue" /\ procs[p].pc = "done" /\ procs[p].flow \in VoterPages
    /\ Rendered(p, IF procs[p].result = "ok" THEN "vote.html" ELSE "vote_error.html")
    /\ UNCHANGED <<now, store, locks, history>>

\* The election is open, voters 1 and 2 hold the tokens 11 and 12 and nobody
\* has been to the identity form yet; two browser requests at a time.
InitPages ==
    /\ now = 0
    /\ roster = {1, 2}
    /\ conc = NumProcs
    /\ elections = [e \in ElectionIds |->
                      [status |-> IF e = 1 THEN "open" ELSE "absent",
                       encryption_key |-> 40 + e]]
    /\ voters = [v \in {1, 2} |->
                   [election_id |-> 1, date_of_birth |-> VoterDob(v), has_voted |-> FALSE]]
    /\ voting_tokens = InsertTokens(<<>>, {1, 2}, 1, 0)
    /\ voter_mfa = <<>>
    /\ blind_tokens = <<>>
    /\ encrypted_ballots = {}
    /\ ballot_seq = 0
    /\ vote_receipts = <<>>
    /\ audit_log = <<AdminAuditRow("election_opened", 1, "election opened for voting")>>
    /\ locks = {}
    /\ procs = [p \in Procs |-> IdleProc]
    /\ issued = {}
    /\ casts = {}
    /\ overlap = {}
    /\ bridge_calls = [t \in VotingTokenValues |-> 0]

NextPages ==
    \/ Tick
    \/ CloseElection(1, "auth")
    \/ \E p \in Procs : Return(p)
    \/ \E p \in Procs, t \in VotingTokenValues : vote_landing(p, t)
    \/ \E p \in Procs : LandingMfaStatus(p)
    \/ \E p \in Procs, t \in VotingTokenValues, dob \in {VoterDob(v) : v \in roster} :
          verify_identity(p, t, dob)
    \/ \E p \in Procs : VerifyExisting(p)
    \/ \E p \in Procs : VerifyCommit(p)
    \/ \E p \in Procs : VerifyResponse(p)
    \/ \E p \in Procs : VerifyIdentityValidate(p)
    \/ \E p \in Procs : acquire_ballot_and_show(p)
    \/ \E p \in Procs : IssueSelect(p)
    \/ \E p \in Procs : IssueMfa(p)
    \/ \E p \in Procs : IssueVoter(p)
    \/ \E p \in Procs : IssueCommit(p)
    \/ \E p \in Procs : IssueResponse(p)

SpecPages == InitPages /\ [][NextPages]_vars

TypeOK ==
    /\ now \in 0..MaxTime
    /\ roster \subseteq VoterIds
    /\ conc \in Procs
    /\ ballot_seq \in Nat
    /\ \A l \in locks : l[1] \in Procs

(***************************************************************************)
(* Views of the committed store used by the properties.                    *)
(***************************************************************************)
VotersOf(e) == {v \in roster : voters[v].election_id = e}

UsedTokensOf(e) ==
    {i \in 1..Len(voting_tokens) :
        voting_tokens[i].election_id = e /\ voting_tokens[i].is_used}

CredentialsOf(e) == {j \in 1..Len(blind_tokens) : blind_tokens[j].election_id = e}

UsedCredentialsOf(e) == {j \in CredentialsOf(e) : blind_tokens[j].is_used}

ReceiptsOf(e) == {k \in 1..Len(vote_receipts) : vote_receipts[k].election_id = e}

EndedIssue(p, res) ==
    procs[p].op = "issue" /\ procs[p].pc = "done" /\ procs[p].result = res

EndedCast(p, res) ==
    procs[p].op = "cast" /\ procs[p].pc = "done" /\ procs[p].result = res

(***************************************************************************)
(* C1 (SpecBridge).                                                        *)
(***************************************************************************)
\* C1: for any voting token, however the issue_ballot_token calls for it interleave
\* or repeat, at most one of them succeeds; each success mints exactly one
\* credential, and a call that ends without success once the token has been
\* issued for returns AlreadyUsed or AlreadyVoted and mints nothing.
C1_OneIssuePerToken ==
    /\ \A t \in VotingTokenValues : Cardinality({r \in issued : r.token = t}) <= 1
    /\ Len(blind_tokens) = Cardinality(issued)
    /\ \A p \in Procs :
          (/\ procs[p].op = "issue" /\ procs[p].pc = "done" /\ procs[p].result # "ok"
           /\ \E r \in issued : r.token = procs[p].tok)
          => procs[p].result \in {"AlreadyUsed", "AlreadyVoted"}

\* a call for an issued token was refused while another call for it is in flight
C1_DuplicateRefused ==
    \E p, q \in Procs :
        /\ p # q
        /\ EndedIssue(p, "AlreadyUsed")
        /\ \E r \in issued : r.token = procs[p].tok
        /\ procs[q].op = "issue" /\ procs[q].tok = procs[p].tok

(***************************************************************************)
(* C2 (SpecLedger).                                                        *)
(***************************************************************************)
\* C2: for any blind ballot credential, however the cast_vote / submit_vote calls
\* for it interleave or repeat, at most one succeeds, and every recorded ballot
\* is the ballot of one successful call: at most one ballot per credential.
C2_OneCastPerCredential ==
    /\ \A value \in BallotTokenValues :
          Cardinality({c \in casts : c.ballot_token = value}) <= 1
    /\ Cardinality(encrypted_ballots) = Cardinality(casts)
    /\ \A b \in encrypted_ballots : \E c \in casts : c.id = b.id

\* a credential that was cast is refused by voting-service while auth-service
\* has one more call for it in flight
C2_RepeatRefused ==
    \E p, q \in Procs :
        /\ p # q
        /\ EndedCast(p, "AlreadyUsed") /\ procs[p].svc = "voting"
        /\ \E c \in casts : c.ballot_token = procs[p].bt
        /\ procs[q].op = "cast" /\ procs[q].bt = procs[p].bt /\ procs[q].svc = "auth"

(***************************************************************************)
(* C3 (SpecVoter).                                                         *)
(***************************************************************************)
\* C3: for any voter, over all the voting tokens that reference the voter, at most
\* one issue_ballot_token call succeeds; so the credentials issued and the
\* ballots recorded for an election never outnumber the voters of the election.
C3_OneVotePerVoter ==
    /\ \A v \in roster : Cardinality({r \in issued : r.voter_id = v}) <= 1
    /\ \A e \in ElectionIds :
          /\ Cardinality(CredentialsOf(e)) <= Cardinality(VotersOf(e))
          /\ Cardinality(BallotsOf(e)) <= Cardinality(VotersOf(e))

\* a voter who holds two tokens and has a ballot recorded is refused on the second
C3_SecondTokenRefused ==
    \E p \in Procs :
        /\ EndedIssue(p, "AlreadyVoted")
        /\ \E i, k \in 1..Len(voting_tokens) :
              /\ i # k
              /\ voting_tokens[i].voter_id = voting_tokens[k].voter_id
              /\ voting_tokens[i].is_used
              /\ voting_tokens[k].token = procs[p].tok
        /\ encrypted_ballots # {}

(***************************************************************************)
(* C4 (Spec).                                                              *)
(***************************************************************************)
HoldsVoterRef(row) ==
    "voter_id" \in DOMAIN row \/ "token" \in DOMAIN row \/ "date_of_birth" \in DOMAIN row

HoldsCredential(row) == "ballot_token" \in DOMAIN row

\* C4: no committed row of any table holds both a voter id (or voting token value)
\* and a credential value; a blind_tokens row has the credential value, the
\* election reference and its used flag and time, nothing else.
C4_NoLinkingRow ==
    /\ \A j \in 1..Len(blind_tokens) :
          /\ DOMAIN blind_tokens[j] = {"ballot_token", "election_id", "is_used", "used_at"}
          /\ blind_tokens[j].ballot_token \in BallotTokenValues \ VotingTokenValues
          /\ {blind_tokens[j].election_id, blind_tokens[j].used_at}
                \cap VotingTokenValues = {}
    /\ \A i \in 1..Len(voting_tokens) :
          /\ ~ HoldsCredential(voting_tokens[i])
          /\ {voting_tokens[i].token, voting_tokens[i].voter_id,
               voting_tokens[i].election_id, voting_tokens[i].expires_at,
               voting_tokens[i].used_at} \cap BallotTokenValues = {}
    /\ \A v \in roster :
          /\ ~ HoldsCredential(voters[v])
          /\ {v, voters[v].election_id, voters[v].date_of_birth}
                \cap BallotTokenValues = {}
    /\ \A i \in 1..Len(voter_mfa) : voter_mfa[i] \notin BallotTokenValues
    /\ \A b \in encrypted_ballots :
          /\ ~ HoldsVoterRef(b) /\ ~ HoldsCredential(b)
          /\ b.receipt_token \notin BallotTokenValues \cup VotingTokenValues
    /\ \A k \in 1..Len(vote_receipts) :
          /\ ~ HoldsVoterRef(vote_receipts[k]) /\ ~ HoldsCredential(vote_receipts[k])
          /\ vote_receipts[k].receipt_token \notin BallotTokenValues \cup VotingTokenValues
    /\ \A a \in 1..Len(audit_log) :
          /\ ~ HoldsVoterRef(audit_log[a]) /\ ~ HoldsCredential(audit_log[a])
          /\ ~ HoldsVoterRef(audit_log[a].detail) /\ ~ HoldsCredential(audit_log[a].detail)
          /\ audit_log[a].actor_type # "organiser" => audit_log[a].actor_id = 0

\* every table has been written: a credential was issued and cast
C4_AllTablesWritten ==
    /\ \E j \in 1..Len(blind_tokens) : blind_tokens[j].is_used
    /\ encrypted_ballots # {}
    /\ vote_receipts # <<>>
    /\ voter_mfa # <<>>
    /\ \E a \in 1..Len(audit_log) : audit_log[a].event_type = "ballot_token_issued"
    /\ \E a \in 1..Len(audit_log) : audit_log[a].event_type = "ballot_cast"

(***************************************************************************)
(* C5 (Spec).                                                              *)
(***************************************************************************)
\* the voting_tokens row a successful issuance consumed, the blind_tokens row it wrote
TokenOf(r) == voting_tokens[TokenIndex(r.token)]

CredentialRowOf(r) == BlindIndex(r.ballot_token, r.election_id)

\* Issuances of one election are serialised by the lock on the election row, and
\* the expiry check runs under that lock: an issuance that wrote its blind_tokens
\* row after another one checked its expiry after the other transaction had
\* started, that is, after the other token's used_at.
IssueOrderBound ==
    \A r1, r2 \in issued :
        (/\ r1.election_id = r2.election_id
         /\ CredentialRowOf(r1) < CredentialRowOf(r2))
        => TokenOf(r1).used_at <= TokenOf(r2).expires_at

\* C5: the committed store does not determine which voter received which
\* credential: whenever two voters of one election have been issued credentials,
\* the same store with the two credentials exchanged is the outcome of an
\* execution too.  Such an execution wrote the two blind_tokens rows in the other
\* order, so by IssueOrderBound the store must leave room for it.
C5_SwapAdmissible ==
    \A r1, r2 \in issued :
        (/\ r1.election_id = r2.election_id
         /\ CredentialRowOf(r1) < CredentialRowOf(r2))
        => TokenOf(r2).used_at <= TokenOf(r1).expires_at

(***************************************************************************)
(* C6, C7, C10 (SpecLedger).                                               *)
(***************************************************************************)
ChainLinked(e) ==
    \A i \in 2..Len(Chain(e)) : Chain(e)[i].previous_hash = Chain(e)[i - 1].ballot_hash

\* C6: as long as no two cast transactions of an election have overlapped in
\* time, in the ballots of the election ordered by id every entry after the
\* first has previous_hash equal to the ballot_hash of the entry before it.
C6_ChainIntegrity ==
    \A e \in ElectionIds : e \notin overlap => ChainLinked(e)

\* two ballots were cast one after the other
C6_TwoBallotsInTurn ==
    /\ Len(Chain(1)) = 2
    /\ 1 \notin overlap

\* C7: under every interleaving of concurrent casts no two committed ballots of
\* an election carry the same previous_hash; in particular no election has two
\* first ballots.
C7_NoFork ==
    \A e \in ElectionIds : \A b1, b2 \in BallotsOf(e) :
        b1.id # b2.id => b1.previous_hash # b2.previous_hash

\* C10: in every committed state and for every election the ballots, the used
\* credentials and the receipts are equally many; every ballot has its receipt
\* and the used credential of the call that stored it, and every used credential
\* has its ballot, also after error pages returned inside the transaction.
C10_CastAllOrNothing ==
    /\ \A e \in ElectionIds :
          /\ Cardinality(BallotsOf(e)) = Cardinality(UsedCredentialsOf(e))
          /\ Cardinality(BallotsOf(e)) = Cardinality(ReceiptsOf(e))
          /\ \A b \in BallotsOf(e) :
                /\ \E k \in ReceiptsOf(e) :
                      /\ vote_receipts[k].receipt_token = b.receipt_token
                      /\ vote_receipts[k].ballot_hash = b.ballot_hash
                /\ \E c \in casts :
                      /\ c.id = b.id
                      /\ blind_tokens[BlindIndex(c.ballot_token, e)].is_used
          /\ \A j \in UsedCredentialsOf(e) :
                \E c \in casts : /\ c.ballot_token = blind_tokens[j].ballot_token
                                 /\ \E b \in BallotsOf(e) : b.id = c.id

\* voting-service returned an error page from inside the transaction, with the
\* credential row locked, next to a recorded ballot and an unused credential
C10_ErrorPageInsideTransaction ==
    /\ \E p \in Procs : EndedCast(p, "InvalidOption") /\ procs[p].svc = "voting"
    /\ Cardinality(BallotsOf(1)) = 1
    /\ Cardinality(CredentialsOf(1)) = 2

(***************************************************************************)
(* C8 (Spec).                                                              *)
(***************************************************************************)
\* the sentinel of the first entry of a chain: the all-zero hash
ZeroHash == <<0>>

\* C8: the first ballot of every election has previous_hash equal to the all-zero
\* sentinel, not an absent value.
C8_FirstBallotSentinel ==
    \A e \in ElectionIds : BallotsOf(e) # {} => Chain(e)[1].previous_hash = ZeroHash

(***************************************************************************)
(* C9 (SpecBridge).                                                        *)
(***************************************************************************)
\* C9: in every committed state a voting token is used exactly when the call that
\* used it marked its voter as voted and minted exactly one credential; a voter
\* is marked voted only by such a call; so the credentials of an election are
\* as many as its used tokens.
C9_IssueAllOrNothing ==
    /\ \A i \in 1..Len(voting_tokens) :
          voting_tokens[i].is_used <=>
             \E r \in issued :
                /\ r.token = voting_tokens[i].token
                /\ r.voter_id = voting_tokens[i].voter_id
                /\ voters[r.voter_id].has_voted
                /\ Cardinality({j \in CredentialsOf(r.election_id) :
                                   blind_tokens[j].ballot_token = r.ballot_token}) = 1
    /\ \A v \in roster :
          voters[v].has_voted =>
             \E i \in 1..Len(voting_tokens) :
                voting_tokens[i].voter_id = v /\ voting_tokens[i].is_used
    /\ \A e \in ElectionIds :
          Cardinality(CredentialsOf(e)) = Cardinality(UsedTokensOf(e))

\* next to a used token, a call for an unverified token of the same voter ended
\* inside its transaction and left nothing behind
C9_FailureLeftNothing ==
    /\ \E p \in Procs : EndedIssue(p, "IdentityVerificationRequired")
    /\ UsedTokensOf(1) # {}
    /\ Cardinality(CredentialsOf(1)) = 1

(***************************************************************************)
(* C11 (SpecAudit).                                                        *)
(***************************************************************************)
EndedReceipt(p, res) ==
    procs[p].op = "receipt" /\ procs[p].pc = "done" /\ procs[p].result = res

\* C11: verify_receipt succeeds exactly for the receipt tokens returned by a
\* committed cast and answers NotFound for every other value; the hash it
\* returns is the hash the cast returned, which is the stored hash of the ballot
\* inserted by the same transaction; every vote_receipts row has exactly one
\* encrypted_ballots row with the same election, receipt token and hash.
C11_ReceiptRoundTrip ==
    /\ \A r \in ReceiptTokenValues :
          (ReceiptIndex(r) # 0) <=> (\E c \in casts : c.receipt_token = r)
    /\ \A p \in Procs :
          (procs[p].op = "receipt" /\ procs[p].pc = "done") =>
             IF \E c \in casts : c.receipt_token = procs[p].tok
             THEN /\ procs[p].result = "ok"
                  /\ procs[p].row.receipt_token = procs[p].tok
                  /\ \A c \in casts :
                        c.receipt_token = procs[p].tok =>
                           \E b \in encrypted_ballots :
                              /\ b.id = c.id
                              /\ b.election_id = procs[p].row.election_id
                              /\ b.ballot_hash = procs[p].row.ballot_hash
             ELSE procs[p].result = "NotFound"
    /\ \A p \in Procs :
          EndedCast(p, "ok") =>
             /\ procs[p].row \in encrypted_ballots
             /\ procs[p].out = procs[p].row.receipt_token
             /\ ReceiptIndex(procs[p].out) # 0
             /\ vote_receipts[ReceiptIndex(procs[p].out)].ballot_hash =
                   procs[p].row.ballot_hash
    /\ \A k \in 1..Len(vote_receipts) :
          Cardinality({b \in encrypted_ballots :
                          /\ b.election_id = vote_receipts[k].election_id
                          /\ b.receipt_token = vote_receipts[k].receipt_token
                          /\ b.ballot_hash = vote_receipts[k].ballot_hash}) = 1

\* the receipt of the second of two ballots was presented and found
C11_SecondReceiptFound ==
    /\ Len(vote_receipts) = 2
    /\ \E p \in Procs : EndedReceipt(p, "ok") /\ procs[p].tok = generate_receipt_token(2)

(***************************************************************************)
(* C12, C13, C14 (SpecAudit).                                              *)
(***************************************************************************)
EndedAudit(p, res) ==
    procs[p].op = "audit" /\ procs[p].pc = "done" /\ procs[p].result = res

\* the endpoint of auth-service reports the chain valid exactly when every
\* ballot of the election after the first carries the hash of the ballot
\* before it
AuthAuditVerdict ==
    \A p \in Procs :
        (EndedAudit(p, "ok") /\ procs[p].svc = "auth") =>
            (procs[p].row.hash_chain_valid <=> ChainLinked(procs[p].eid))

\* C12: an audit of a closed election, through either endpoint, reports the
\* chain valid if and only if, in the encrypted_ballots rows of the election
\* ordered by id, every entry after the first has previous_hash equal to the
\* ballot_hash of the entry before it.
C12_AuditVerdict ==
    \A p \in Procs :
        EndedAudit(p, "ok") =>
            (procs[p].row.hash_chain_valid <=> ChainLinked(procs[p].eid))

\* C13: once a stored ciphertext of a closed election has been changed without
\* the stored hashes being touched, an audit of the election reports the chain
\* invalid: an audit that reports it valid finds every ballot still holding
\* the choice that was cast.
C13_TamperEvident ==
    \A p \in Procs :
        (EndedAudit(p, "ok") /\ procs[p].row.hash_chain_valid) =>
            \A c \in casts :
                c.election_id = procs[p].eid =>
                    \E b \in encrypted_ballots :
                        /\ b.id = c.id
                        /\ pgp_sym_decrypt(b.encrypted_vote,
                                           elections[b.election_id].encryption_key)
                              = c.option_id

\* C14: an audit returns the chain only when the election is closed; for an
\* election in draft or open it ends with AuditNotAvailable, never reads the
\* ballots and hands out no entry.
C14_AuditOnlyWhenClosed ==
    \A p \in Procs :
        procs[p].op = "audit" =>
            /\ procs[p].pc = "ballots" => elections[procs[p].eid].status = "closed"
            /\ procs[p].pc = "done" =>
                  /\ procs[p].result = "ok" <=> elections[procs[p].eid].status = "closed"
                  /\ elections[procs[p].eid].status \in {"draft", "open"} =>
                        procs[p].result = "AuditNotAvailable"
                  /\ procs[p].result # "ok" => procs[p].row = NULL

\* an audit was refused while the open election already held a ballot
C14_RefusedWhileOpen ==
    \E p \in Procs :
        /\ EndedAudit(p, "AuditNotAvailable")
        /\ elections[procs[p].eid].status = "open"
        /\ BallotsOf(procs[p].eid) # {}

(***************************************************************************)
(* C15 (SpecBridge), C16, C17 (Spec).                                      *)
(***************************************************************************)
MfaRecordsOf(t) == {k \in 1..Len(voter_mfa) : voter_mfa[k] = t}

EndedVerify(p, res) ==
    procs[p].op = "verify" /\ procs[p].pc = "done" /\ procs[p].result = res

\* C15: every voter_mfa row is written by a verify_identity call that succeeds
\* for that token value; every issuance that got past the MFA check, and every
\* successful one, was for a token with its own voter_mfa row; an issuance that
\* ends with IdentityVerificationRequired was for a token without a row, whatever
\* other tokens of the voter are verified, and it wrote nothing.
C15_IssueNeedsVerification ==
    /\ [](/\ \A r \in issued : MfaRecordsOf(r.token) # {}
          /\ \A p \in Procs :
                /\ (procs[p].op = "issue" /\ procs[p].pc \in {"voter", "write"}) =>
                       MfaRecordsOf(procs[p].tok) # {}
                /\ EndedIssue(p, "IdentityVerificationRequired") =>
                       /\ MfaRecordsOf(procs[p].tok) = {}
                       /\ \A r \in issued : r.token # procs[p].tok)
    /\ [][/\ voter_mfa' # voter_mfa =>
                \E p \in Procs :
                    /\ procs'[p].op = "verify" /\ procs'[p].pc = "done"
                    /\ procs'[p].result = "ok"
                    /\ voter_mfa' = Append(voter_mfa, procs'[p].tok)
          /\ \A p \in Procs :
                (procs'[p].op = "issue" /\ procs'[p].pc = "done" /\ procs[p].pc # "done"
                   /\ procs'[p].result = "IdentityVerificationRequired") =>
                      UNCHANGED <<store, history>>]_vars

\* an issuance was refused for an unverified token while another token of the
\* same voter was verified
C15_OtherTokenNotEnough ==
    \E p \in Procs :
        /\ EndedIssue(p, "IdentityVerificationRequired")
        /\ \E k \in 1..Len(voter_mfa) :
              /\ voter_mfa[k] # procs[p].tok
              /\ voting_tokens[TokenIndex(voter_mfa[k])].voter_id =
                    voting_tokens[TokenIndex(procs[p].tok)].voter_id

\* C16: a verify_identity call for a token that already has its voter_mfa row,
\* with the date of birth on file and the token still passing every check,
\* answers verified again; a successful call leaves exactly one row for the
\* token, and no token ever has more than one.
C16_VerifyIdempotent ==
    /\ \A t \in VotingTokenValues : Cardinality(MfaRecordsOf(t)) <= 1
    /\ \A p \in Procs :
          (procs[p].op = "verify" /\ procs[p].pc = "done") =>
             LET i == TokenIndex(procs[p].tok) IN
             /\ procs[p].result = "ok" => Cardinality(MfaRecordsOf(procs[p].tok)) = 1
             /\ ( /\ i # 0
                  /\ MfaRecordsOf(procs[p].tok) # {}
                  /\ ~ voting_tokens[i].is_used
                  /\ now <= voting_tokens[i].expires_at
                  /\ elections[voting_tokens[i].election_id].status = "open"
                  /\ ~ voters[voting_tokens[i].voter_id].has_voted
                  /\ voters[voting_tokens[i].voter_id].date_of_birth = procs[p].dob )
                => procs[p].result = "ok"

\* a call found the row of an earlier call and answered verified
C16_VerifiedTwice ==
    \E p \in Procs :
        /\ EndedVerify(p, "ok")
        /\ procs[p].existing
        /\ Cardinality(MfaRecordsOf(procs[p].tok)) = 1

\* C17: a verify_identity call with a date of birth other than the one on file,
\* for a token that passes the checks before it, ends with IdentityMismatch and
\* IdentityMismatch is returned for no other reason; the call writes nothing, so
\* the MFA status of the token is what it was; an issuance that reaches the MFA
\* check for a token without a voter_mfa row ends with
\* IdentityVerificationRequired.
C17_WrongDobRefused ==
    /\ [](\A p \in Procs :
            (procs[p].op = "verify" /\ procs[p].pc = "done") =>
               LET i == TokenIndex(procs[p].tok) IN
               /\ procs[p].result = "IdentityMismatch" =>
                     /\ i # 0
                     /\ voters[voting_tokens[i].voter_id].date_of_birth # procs[p].dob
               /\ ( /\ i # 0
                    /\ ~ voting_tokens[i].is_used
                    /\ now <= voting_tokens[i].expires_at
                    /\ elections[voting_tokens[i].election_id].status = "open"
                    /\ ~ voters[voting_tokens[i].voter_id].has_voted
                    /\ voters[voting_tokens[i].voter_id].date_of_birth # procs[p].dob )
                  => procs[p].result = "IdentityMismatch")
    /\ [][\A p \in Procs :
            /\ (procs'[p].op = "verify" /\ procs'[p].pc = "done" /\ procs[p].pc # "done"
                  /\ procs'[p].result = "IdentityMismatch") =>
                  /\ UNCHANGED <<store, history>>
                  /\ \A t \in VotingTokenValues : MfaVerified(t)' = MfaVerified(t)
            /\ (procs[p].op = "issue" /\ procs[p].pc = "mfa" /\ procs'[p].pc # "mfa"
                  /\ ~ MfaVerified(procs[p].tok)) =>
                  /\ procs'[p].pc = "done"
                  /\ procs'[p].result = "IdentityVerificationRequired"]_vars

\* a wrong date of birth was refused for a token that is otherwise good and
\* has no voter_mfa row
C17_MismatchLeftUnverified ==
    \E p \in Procs :
        /\ EndedVerify(p, "IdentityMismatch")
        /\ TokenCheck(procs[p].tok, now) = "ok"
        /\ ~ MfaVerified(procs[p].tok)

(***************************************************************************)
(* C18, C19, C20 (Spec).                                                   *)
(***************************************************************************)
\* the token exists, is unused, and its expiry has passed
PastExpiry(t) ==
    /\ TokenIndex(t) # 0
    /\ ~ voting_tokens[TokenIndex(t)].is_used
    /\ now > voting_tokens[TokenIndex(t)].expires_at

\* C18: a verify_identity call for an unused token whose expiry has passed ends
\* with Expired whatever date of birth it carries and writes nothing; an
\* issue_ballot_token call that runs its checks on such a token ends with
\* Expired whether or not the token has a voter_mfa row, and writes nothing.
C18_ExpiryFirst ==
    [][\A p \in Procs :
          /\ (procs[p].op = "idle" /\ procs'[p].op = "verify" /\ PastExpiry(procs'[p].tok)) =>
                /\ procs'[p].pc = "done"
                /\ procs'[p].result = "Expired"
                /\ UNCHANGED <<store, history>>
          /\ (procs[p].op = "issue" /\ procs[p].pc = "select" /\ procs'[p].pc # "select"
                /\ PastExpiry(procs[p].tok)) =>
                /\ procs'[p].pc = "done"
                /\ procs'[p].result = "Expired"
                /\ UNCHANGED <<store, history>>]_vars

\* an issuance was refused as expired for a token verified before its expiry
C18_ExpiredAfterVerification ==
    \E p \in Procs :
        /\ EndedIssue(p, "Expired")
        /\ MfaVerified(procs[p].tok)

\* C19: issue_ballot_token reports the first failing precondition in the order
\* NotFound, AlreadyUsed, Expired, ElectionNotOpen, IdentityVerificationRequired,
\* AlreadyVoted, and goes on to the next check only when the one before it
\* passed; an issuance refused for a token that an earlier call was issued for
\* ends with AlreadyUsed, and a cast refused for a credential of the election
\* that an earlier call has cast ends with AlreadyUsed.
C19_IssueCheckOrder ==
    /\ [](\A p \in Procs :
            /\ (procs[p].op = "issue" /\ procs[p].pc = "done" /\ procs[p].result # "ok"
                  /\ \E r \in issued : r.token = procs[p].tok) =>
                  procs[p].result = "AlreadyUsed"
            /\ (procs[p].op = "cast" /\ procs[p].pc = "done" /\ procs[p].result # "ok"
                  /\ \E c \in casts : c.ballot_token = procs[p].bt
                                        /\ c.election_id = procs[p].eid) =>
                  procs[p].result = "AlreadyUsed")
    /\ [][\A p \in Procs :
            LET i == TokenIndex(procs[p].tok)
                ends(res) == procs'[p].pc = "done" /\ procs'[p].result = res
            IN
            /\ (procs[p].op = "issue" /\ procs[p].pc = "select" /\ procs'[p].pc # "select") =>
                  IF i = 0 THEN ends("NotFound")
                  ELSE IF voting_tokens[i].is_used THEN ends("AlreadyUsed")
                  ELSE IF now > voting_tokens[i].expires_at THEN ends("Expired")
                  ELSE IF elections[voting_tokens[i].election_id].status # "open"
                       THEN ends("ElectionNotOpen")
                  ELSE procs'[p].pc = "mfa"
            /\ (procs[p].op = "issue" /\ procs[p].pc = "mfa" /\ procs'[p].pc # "mfa") =>
                  IF MfaRecordsOf(procs[p].tok) = {}
                  THEN ends("IdentityVerificationRequired")
                  ELSE procs'[p].pc = "voter"
            /\ (procs[p].op = "issue" /\ procs[p].pc = "voter" /\ procs'[p].pc # "voter") =>
                  IF voters[voting_tokens[i].voter_id].has_voted
                  THEN ends("AlreadyVoted")
                  ELSE procs'[p].pc = "write"]_vars

\* the issuance for a token was repeated after it succeeded, when the token had
\* also expired and its voter was marked as voted
C19_RepeatAfterSuccess ==
    \E p \in Procs :
        /\ EndedIssue(p, "AlreadyUsed")
        /\ \E r \in issued : r.token = procs[p].tok /\ voters[r.voter_id].has_voted
        /\ now > voting_tokens[TokenIndex(procs[p].tok)].expires_at

\* C20: in every step every committed encrypted_ballots row stays as it is, a
\* new row takes an id no committed row has, and the vote_receipts rows stay
\* as they are with new ones added at the end: rows of the ledger are inserted
\* and never updated or deleted.
C20_LedgerAppendOnly ==
    [][/\ encrypted_ballots \subseteq encrypted_ballots'
       /\ \A b \in encrypted_ballots' \ encrypted_ballots :
             \A c \in encrypted_ballots : c.id # b.id
       /\ Len(vote_receipts') >= Len(vote_receipts)
       /\ SubSeq(vote_receipts', 1, Len(vote_receipts)) = vote_receipts]_vars

\* a cast has just added the second ballot and the second receipt
C20_SecondRowAppended ==
    /\ Cardinality(encrypted_ballots) = 2
    /\ Len(vote_receipts) = 2
    /\ \E p \in Procs : EndedCast(p, "ok") /\ procs[p].row.id = 2

(***************************************************************************)
(* C21 (SpecCore).                                                         *)
(***************************************************************************)
EndedResults(p, res) ==
    procs[p].op = "results" /\ procs[p].pc = "done" /\ procs[p].result = res

\* C21: a results request for an election in draft or open is answered with
\* status 400 or 403 and carries no tally; the tally is read, and a response
\* with results is given, only for a closed election.
C21_ResultsOnlyWhenClosed ==
    \A p \in Procs :
        procs[p].op = "results" =>
            /\ procs[p].pc = "tally" => elections[procs[p].eid].status = "closed"
            /\ procs[p].pc = "done" =>
                  /\ procs[p].result = "ok" <=> elections[procs[p].eid].status = "closed"
                  /\ ResultsStatus(procs[p].result) = 200 <=> procs[p].result = "ok"
                  /\ elections[procs[p].eid].status \in {"draft", "open"} =>
                        /\ ResultsStatus(procs[p].result) \in {400, 403}
                        /\ procs[p].row = NULL

\* results were refused while the open election already held a ballot
C21_RefusedWhileOpen ==
    \E p \in Procs :
        /\ EndedResults(p, "ResultsNotAvailable")
        /\ elections[procs[p].eid].status = "open"
        /\ BallotsOf(procs[p].eid) # {}

(***************************************************************************)
(* C22, C23, C24 (SpecCore).                                               *)
(***************************************************************************)
\* C22: a verify_identity request refused because the date of birth is not the
\* one on file, for a token that passes every other check, is answered with
\* status 400 or 401.
C22_WrongDobStatus ==
    \A p \in Procs :
        (EndedVerify(p, "IdentityMismatch") /\ TokenCheck(procs[p].tok, now) = "ok") =>
            VerifyStatus(procs[p].result) \in {400, 401}

EndedValidate(p, res) ==
    procs[p].op = "validate" /\ procs[p].pc = "done" /\ procs[p].result = res

\* C23: a token validation answers valid, with the voter and the election of
\* the token, exactly when the token exists, is unused, the clock is not past
\* its expiry and its election is open; otherwise it answers the first failing
\* kind in the order NotFound, AlreadyUsed, Expired, ElectionNotOpen; the call
\* changes nothing in the store.
C23_ValidateToken ==
    /\ [](\A p \in Procs :
            (procs[p].op = "validate" /\ procs[p].pc = "done") =>
               LET i == TokenIndex(procs[p].tok) IN
               /\ procs[p].result =
                     IF i = 0 THEN "NotFound"
                     ELSE IF voting_tokens[i].is_used THEN "AlreadyUsed"
                     ELSE IF now > voting_tokens[i].expires_at THEN "Expired"
                     ELSE IF elections[voting_tokens[i].election_id].status # "open"
                          THEN "ElectionNotOpen"
                     ELSE "ok"
               /\ procs[p].result = "ok" =>
                     /\ procs[p].row.valid
                     /\ procs[p].row.voter_id = voting_tokens[i].voter_id
                     /\ procs[p].row.election_id = voting_tokens[i].election_id
               /\ procs[p].result # "ok" => procs[p].row = NULL)
    /\ [][\A p \in Procs :
            procs'[p].op = "validate" => UNCHANGED <<store, locks, history>>]_vars

\* a token was found valid at the very instant of its expiry
C23_ValidAtExpiryInstant ==
    \E p \in Procs :
        /\ EndedValidate(p, "ok")
        /\ now = voting_tokens[TokenIndex(procs[p].tok)].expires_at

\* C24: a call that ends with an error ends in a step that leaves every table
\* as it was and holds no row lock afterwards; the only steps that change the
\* store are the administration, the steps that end a call with success, and
\* the ballot INSERT of a cast, after which the cast can only succeed.
C24_ErrorsChangeNothing ==
    /\ [](\A p \in Procs : procs[p].pc = "done" => \A l \in locks : l[1] # p)
    /\ [][/\ \A p \in Procs :
               (procs'[p].pc = "done" /\ procs[p].pc # "done" /\ procs'[p].result # "ok") =>
                  /\ UNCHANGED <<store, history>>
                  /\ \A l \in locks' : l[1] # p
          /\ \A p \in Procs :
               (procs[p].op = "cast" /\ procs[p].pc = "commit" /\ procs'[p].pc # "commit") =>
                  (procs'[p].pc = "done" /\ procs'[p].result = "ok")
          /\ store' # store =>
               \/ procs' = procs
               \/ \E p \in Procs :
                     /\ procs[p].pc # "done" /\ procs'[p].pc = "done"
                     /\ procs'[p].result = "ok"
               \/ \E p \in Procs :
                     /\ procs[p].op = "cast" /\ procs[p].pc = "insert"
                     /\ procs'[p].pc = "commit"]_vars

\* a cast was refused after it had locked its credential: the credential is
\* unused and unlocked
C24_RefusedCastLeftNothing ==
    \E p \in Procs :
        /\ EndedCast(p, "InvalidOption")
        /\ locks = {}
        /\ ~ blind_tokens[BlindIndex(procs[p].bt, procs[p].eid)].is_used
        /\ encrypted_ballots = {}

(***************************************************************************)
(* C25 (SpecCore).                                                         *)
(***************************************************************************)
\* the voter of the token has voted; the token itself exists, is unused and
\* unexpired, and its election is open
VoterVotedTokenGood(t) ==
    /\ TokenCheck(t, now) = "ok"
    /\ voters[voting_tokens[TokenIndex(t)].voter_id].has_voted

\* verify_identity of auth-service refuses every token of a voter who has voted
AuthAlreadyVoted ==
    \A p \in Procs :
        (procs[p].op = "verify" /\ procs[p].pc = "done" /\ procs[p].svc = "auth"
           /\ VoterVotedTokenGood(procs[p].tok)) =>
              procs[p].result = "AlreadyVoted"

\* C25: a verify_identity call, through either service, for an unused,
\* unexpired token of an open election whose voter has already voted ends with
\* AlreadyVoted, whatever date of birth it carries, and so never with success
\* and a voter_mfa row.
C25_AlreadyVotedRefused ==
    \A p \in Procs :
        (procs[p].op = "verify" /\ procs[p].pc = "done"
           /\ VoterVotedTokenGood(procs[p].tok)) =>
              procs[p].result = "AlreadyVoted"

CredentialElection(value) ==
    IF \E j \in 1..Len(blind_tokens) : blind_tokens[j].ballot_token = value
    THEN blind_tokens[CHOOSE j \in 1..Len(blind_tokens) :
                         blind_tokens[j].ballot_token = value].election_id
    ELSE 0

\* C27: a cast that presents a credential issued for another election ends with
\* InvalidCredential and leaves the credentials as they were; every ballot of an
\* election was produced by consuming a credential issued from a voting token
\* of that election.
C27_CredentialBoundToElection ==
    /\ [](\A p \in Procs :
            (procs[p].op = "cast" /\ procs[p].pc = "done"
               /\ CredentialElection(procs[p].bt) # procs[p].eid) =>
                  procs[p].result = "InvalidCredential")
    /\ [](\A b \in encrypted_ballots :
            \E c \in casts, i \in issued :
               /\ c.id = b.id /\ c.election_id = b.election_id
               /\ CredentialElection(c.ballot_token) = b.election_id
               /\ i.ballot_token = c.ballot_token /\ i.election_id = b.election_id
               /\ voting_tokens[TokenIndex(i.token)].election_id = b.election_id)
    /\ [][\A p \in Procs :
            (procs[p].pc # "done" /\ EndedCast(p, "InvalidCredential")') =>
               UNCHANGED <<store, history>>]_vars

\* an unused credential of election 1 was presented to the open election 2
C27_ForeignCredentialRefused ==
    \E p \in Procs :
        /\ EndedCast(p, "InvalidCredential")
        /\ CredentialElection(procs[p].bt) \notin {0, procs[p].eid}
        /\ elections[procs[p].eid].status = "open"
        /\ \A j \in 1..Len(blind_tokens) :
              blind_tokens[j].ballot_token = procs[p].bt => ~ blind_tokens[j].is_used

\* the credential presented by p exists for the election of the request, unused
CredentialGood(p) ==
    /\ BlindIndex(procs[p].bt, procs[p].eid) # 0
    /\ ~ blind_tokens[BlindIndex(procs[p].bt, procs[p].eid)].is_used

\* C28: a cast whose option does not belong to the election of the request ends
\* with InvalidOption, writes nothing and leaves the credential unused; the
\* option encrypted in every ballot row belongs to the election of that row.
C28_OptionOfOwnElection ==
    /\ [](\A b \in encrypted_ballots :
            OptionElection(pgp_sym_decrypt(b.encrypted_vote,
                                           elections[b.election_id].encryption_key))
               = b.election_id)
    /\ [](\A p \in Procs :
            (procs[p].op = "cast" /\ procs[p].pc = "done" /\ CredentialGood(p)
               /\ elections[procs[p].eid].status = "open"
               /\ OptionElection(procs[p].opt) # procs[p].eid) =>
                  procs[p].result = "InvalidOption")
    /\ [](\A p \in Procs : EndedCast(p, "InvalidOption") => CredentialGood(p))
    /\ [][\A p \in Procs :
            (procs[p].pc # "done" /\ EndedCast(p, "InvalidOption")') =>
               UNCHANGED <<store, history>>]_vars

\* an option of the other open election was refused, the credential is unused
C28_ForeignOptionRefused ==
    \E p \in Procs :
        /\ EndedCast(p, "InvalidOption")
        /\ OptionElection(procs[p].opt) # procs[p].eid
        /\ elections[OptionElection(procs[p].opt)].status = "open"
        /\ CredentialGood(p)

\* the answer of cast_vote to a request on the committed rows: the first of its
\* checks that fails
CastOutcome(value, o, e) ==
    IF BlindIndex(value, e) = 0 THEN "InvalidCredential"
    ELSE IF blind_tokens[BlindIndex(value, e)].is_used THEN "AlreadyUsed"
    ELSE IF elections[e].status # "open" THEN "ElectionNotOpen"
    ELSE IF OptionElection(o) # e THEN "InvalidOption"
    ELSE IF elections[e].encryption_key = 0 THEN "EncryptionNotConfigured"
    ELSE "ok"

\* C29: a cast reports the first failing precondition in the order
\* InvalidCredential, AlreadyUsed, ElectionNotOpen, InvalidOption,
\* EncryptionNotConfigured; an election without encryption key yields
\* EncryptionNotConfigured and no ballot, receipt or audit row is written.
C29_CastCheckOrder ==
    /\ [][\A p \in Procs :
            (procs[p].pc # "done" /\ procs'[p].op = "cast" /\ procs'[p].pc = "done") =>
               procs'[p].result = CastOutcome(procs[p].bt, procs[p].opt, procs[p].eid)]_vars
    /\ [][\A p \in Procs :
            (procs[p].pc # "done" /\ EndedCast(p, "EncryptionNotConfigured")') =>
               UNCHANGED <<store, history>>]_vars
    /\ [](\A e \in ElectionIds : elections[e].encryption_key = 0 => BallotsOf(e) = {})

\* a valid credential and a valid option met an open election without key
C29_KeylessElectionRefused ==
    \E p \in Procs :
        /\ EndedCast(p, "EncryptionNotConfigured")
        /\ elections[procs[p].eid].encryption_key = 0
        /\ elections[procs[p].eid].status = "open"
        /\ OptionElection(procs[p].opt) = procs[p].eid
        /\ CredentialGood(p)
        /\ \A k \in 1..Len(vote_receipts) : vote_receipts[k].election_id # procs[p].eid

\* C30: no ballot is committed for an election after its status has become
\* closed: the ballots of a closed election stay as they are, whatever request
\* was in flight when it was closed.
C30_ClosedLedgerFrozen ==
    [][\A e \in ElectionIds :
          elections[e].status = "closed" => BallotsOf(e)' = BallotsOf(e)]_vars

(***************************************************************************)
(* C31 (Spec).                                                             *)
(***************************************************************************)
\* the step ends a request of kind op with success
EndsOk(op) ==
    \E p \in Procs : procs[p].pc # "done" /\ procs'[p].op = op
                       /\ procs'[p].pc = "done" /\ procs'[p].result = "ok"

\* C31: has_voted, voting_tokens.is_used and blind_tokens.is_used never go back
\* from true to false; has_voted and voting_tokens.is_used are set only by a
\* successful issue_ballot_token, blind_tokens.is_used only by a successful cast.
C31_FlagsMonotonic ==
    [][/\ \A v \in roster :
             /\ voters[v].has_voted => voters'[v].has_voted
             /\ voters'[v].has_voted # voters[v].has_voted => EndsOk("issue")
       /\ \A i \in 1..Len(voting_tokens) :
             /\ voting_tokens[i].is_used => voting_tokens'[i].is_used
             /\ voting_tokens'[i].is_used # voting_tokens[i].is_used => EndsOk("issue")
       /\ \A j \in 1..Len(blind_tokens) :
             /\ blind_tokens[j].is_used => blind_tokens'[j].is_used
             /\ blind_tokens'[j].is_used # blind_tokens[j].is_used => EndsOk("cast")
       /\ \A i \in (Len(voting_tokens) + 1)..Len(voting_tokens') : ~ voting_tokens'[i].is_used
       /\ \A j \in (Len(blind_tokens) + 1)..Len(blind_tokens') : ~ blind_tokens'[j].is_used
       /\ \A v \in roster' \ roster : ~ voters'[v].has_voted]_vars

\* a second voter has been through the bridge while the first one's flags stand,
\* and a credential has been consumed
C31_AllFlagsSet ==
    /\ \E v \in roster, w \in roster : v # w /\ voters[v].has_voted /\ voters[w].has_voted
    /\ \E i \in 1..Len(voting_tokens), k \in 1..Len(voting_tokens) :
          i # k /\ voting_tokens[i].is_used /\ voting_tokens[k].is_used
    /\ \E j \in 1..Len(blind_tokens) : blind_tokens[j].is_used

(***************************************************************************)
(* C32 (SpecBridge).                                                       *)
(***************************************************************************)
\* the unused tokens of voter v that have not expired
LiveTokensOf(v) ==
    {i \in 1..Len(voting_tokens) :
        /\ voting_tokens[i].voter_id = v
        /\ ~ voting_tokens[i].is_used
        /\ ~ (now > voting_tokens[i].expires_at)}

\* C32: after any sequence or interleaving of generate_tokens calls no voter has
\* two unused, non-expired voting tokens at the same time.
C32_OneLiveTokenPerVoter ==
    \A v \in roster : Cardinality(LiveTokensOf(v)) <= 1

(***************************************************************************)
(* C33 (SpecVoter).                                                        *)
(***************************************************************************)
\* the rows the next statement of request p has to lock
Wants(p) ==
    IF procs[p].op = "issue" /\ procs[p].pc = "select" /\ TokenIndex(procs[p].tok) # 0
    THEN {<<"voting_tokens", procs[p].tok>>,
          <<"elections", voting_tokens[TokenIndex(procs[p].tok)].election_id>>}
    ELSE IF procs[p].op = "issue" /\ procs[p].pc = "voter"
    THEN IssueVoterLock(p)
    ELSE IF procs[p].op = "cast" /\ procs[p].pc = "select"
            /\ BlindIndex(procs[p].bt, procs[p].eid) # 0
    THEN {<<"blind_tokens", procs[p].bt>>}
    ELSE {}

\* p waits for a row that q has locked
WaitsFor(p, q) ==
    p # q /\ \E w \in Wants(p) : <<q, w[1], w[2]>> \in locks

\* C33: no reachable state has a set of requests in which every one waits for a
\* row locked by another one of the set.
C33_NoLockCycle ==
    \A S \in SUBSET Procs :
        S # {} => \E p \in S : \A q \in S : ~ WaitsFor(p, q)

\* a request that holds its voting_tokens row waits for the elections row that
\* another issuance holds
C33_HoldAndWait ==
    \E p \in Procs, q \in Procs :
        /\ WaitsFor(p, q)
        /\ \E l \in locks : l[1] = p
        /\ ~ WaitsFor(q, p)

(***************************************************************************)
(* C34 (SpecLive).                                                         *)
(***************************************************************************)
\* the request in slot p is a cast that has locked its unused credential, with an
\* option of the election, on an open election that has its key
CastWillSucceed(p) ==
    /\ procs[p].op = "cast" /\ procs[p].pc = "election"
    /\ elections[procs[p].eid].status = "open"
    /\ elections[procs[p].eid].encryption_key # 0
    /\ OptionElection(procs[p].opt) = procs[p].eid

\* C34: under fair scheduling every started request ends and then holds no row
\* lock; a cast with an unused credential, a valid option and a configured key
\* on an election that stays open ends with success and a receipt, whatever
\* other casts and issuances run at the same time.
C34_RequestsTerminate ==
    /\ \A p \in Procs : (procs[p].op # "idle") ~> (procs[p].pc = "done")
    /\ \A p \in Procs :
          CastWillSucceed(p) ~> (EndedCast(p, "ok") /\ procs[p].out \in ReceiptTokenValues)
    /\ [](\A p \in Procs : procs[p].pc \in {"done", "idle"} => \A l \in locks : l[1] # p)

\* a cast has committed while an issuance in the other slot holds its rows
C34_CastDoneBesideIssue ==
    \E p \in Procs, q \in Procs :
        /\ EndedCast(p, "ok")
        /\ procs[q].op = "issue" /\ procs[q].pc \in {"mfa", "voter", "write"}
        /\ \E l \in locks : l[1] = q

(***************************************************************************)
(* C35 (Spec).                                                             *)
(***************************************************************************)
\* C35: the audit row of an issuance is determined by the election alone (no
\* voter id, voting token or credential value in it), the audit row of a cast
\* by the election and the receipt token alone (no option, credential or voter).
C35_AuditRowsAnonymous ==
    \A k \in 1..Len(audit_log) :
        LET r == audit_log[k] IN
        /\ r.event_type = "ballot_token_issued" =>
              r = [event_type |-> "ballot_token_issued", election_id |-> r.election_id,
                   actor_type |-> "system", actor_id |-> 0,
                   detail |-> [note |-> "blind token issued, voter identity separated"]]
        /\ r.event_type = "ballot_cast" =>
              /\ DOMAIN r.detail = {"receipt_token", "note"}
              /\ r = [event_type |-> "ballot_cast", election_id |-> r.election_id,
                      actor_type |-> "voter", actor_id |-> 0,
                      detail |-> [receipt_token |-> r.detail.receipt_token,
                                  note |-> "encrypted ballot cast anonymously"]]
              /\ r.detail.receipt_token \in ReceiptTokenValues

\* two voters of one election have been through the bridge and left the same
\* audit row, and a ballot has been cast
C35_TwoIssuancesOneCast ==
    /\ \E i \in issued, j \in issued :
          i.voter_id # j.voter_id /\ i.election_id = j.election_id
    /\ \E k \in 1..Len(audit_log), m \in 1..Len(audit_log) :
          k # m /\ audit_log[k] = audit_log[m]
                /\ audit_log[k].event_type = "ballot_token_issued"
    /\ \E k \in 1..Len(audit_log) : audit_log[k].event_type = "ballot_cast"

(***************************************************************************)
(* C36 (SpecChains).                                                       *)
(***************************************************************************)
\* the rows of election e in the ledger, the receipts and the credentials
LedgerOf(e) ==
    <<BallotsOf(e), {vote_receipts[k] : k \in ReceiptsOf(e)},
      {blind_tokens[j] : j \in CredentialsOf(e)}>>

\* the step commits a cast on election e
CommitsCastOn(e) ==
    \E p \in Procs : /\ procs[p].op = "cast" /\ procs[p].pc = "commit" /\ procs[p].eid = e
                      /\ procs'[p].pc = "done"

\* C36: a cast takes its previous_hash from a ballot of its own election and
\* changes the ballots, receipts and credentials of no other election, so the
\* audit trail of a closed election is the same before and after a cast on
\* another election.
C36_ChainsIndependent ==
    /\ [](\A b \in encrypted_ballots :
            b.previous_hash # NULL =>
               \E c \in BallotsOf(b.election_id) :
                  c.id < b.id /\ c.ballot_hash = b.previous_hash)
    /\ [][\A e \in ElectionIds : LedgerOf(e)' # LedgerOf(e) => CommitsCastOn(e)]_vars
    /\ [][\A e \in ElectionIds, f \in ElectionIds :
            (e # f /\ elections[e].status = "closed" /\ CommitsCastOn(f)) =>
               \A svc \in {"auth", "results"} :
                  AuditResponse(e, AuditRows(svc, e))' = AuditResponse(e, AuditRows(svc, e))]_vars

\* a ballot of the open election was committed after a ballot of the other
\* election, which is closed and has its own chain
C36_CastBesideClosedElection ==
    \E p \in Procs, e \in ElectionIds :
        /\ EndedCast(p, "ok")
        /\ procs[p].eid # e
        /\ elections[e].status = "closed"
        /\ \E c \in BallotsOf(e) : c.id < procs[p].row.id
        /\ procs[p].row.previous_hash = NULL

(***************************************************************************)
(* C37 (SpecAudit).                                                        *)
(***************************************************************************)
\* C37: for a closed election the audit trail counts exactly the ballots of the
\* committed casts, as many as the election has consumed credentials, and the
\* audit endpoints of auth-service and of results-service report the same
\* count and the same chain verdict.
C37_AuditEndpointsAgree ==
    \A e \in ElectionIds :
        elections[e].status = "closed" =>
            LET a == AuditResponse(e, AuditRows("auth", e))
                r == AuditResponse(e, AuditRows("results", e))
            IN /\ a.total_ballots = Cardinality(UsedCredentialsOf(e))
               /\ r.total_ballots = a.total_ballots
               /\ r.hash_chain_valid = a.hash_chain_valid

\* the endpoint of auth-service alone lists the ballots of the committed casts in
\* the order of their ids
AuthAuditCount ==
    \A e \in ElectionIds :
        elections[e].status = "closed" =>
            LET a == AuditResponse(e, AuditRows("auth", e))
            IN /\ a.total_ballots = Cardinality(UsedCredentialsOf(e))
               /\ {a.audit_trail[i].ballot_id : i \in 1..a.total_ballots}
                     = {c.id : c \in {x \in casts : x.election_id = e}}
               /\ \A i \in 1..(a.total_ballots - 1) :
                     a.audit_trail[i].ballot_id < a.audit_trail[i + 1].ballot_id

(***************************************************************************)
(* C38 (SpecCore).                                                         *)
(***************************************************************************)
\* the results of service svc for election e are the tally of the committed casts
TallyCorrect(svc, e) ==
    LET r == ResultsResponse(svc, e) IN
    /\ \A o \in DOMAIN r.results :
          r.results[o] = Cardinality({c \in casts : c.election_id = e /\ c.option_id = o})
    /\ r.total_votes = Cardinality(BallotsOf(e))
    /\ r.total_votes <= r.total_voters

\* C38: for a closed election the results give every option the number of
\* committed casts that chose it, and total_votes is the number of ballot rows
\* of the election, at most the number of its voters.
C38_TallyCorrect ==
    \A e \in ElectionIds, svc \in {"auth", "results"} :
        elections[e].status = "closed" => TallyCorrect(svc, e)

\* get_results of auth-service alone
AuthTallyCorrect ==
    \A e \in ElectionIds : elections[e].status = "closed" => TallyCorrect("auth", e)

(***************************************************************************)
(* C39 (SpecCore).                                                         *)
(***************************************************************************)
\* C39: the status of an election only moves draft -> open -> closed, and no
\* step of validate, verify, issue, cast, audit or receipt verification (nor of
\* any other request in flight) changes it.
C39_StatusForwardOnly ==
    [][\A e \in ElectionIds :
          elections'[e].status # elections[e].status =>
             /\ <<elections[e].status, elections'[e].status>>
                   \in {<<"absent", "draft">>, <<"draft", "open">>, <<"open", "closed">>}
             /\ elections'[e].encryption_key = elections[e].encryption_key
             /\ procs' = procs]_vars

\* a closed election has refused a cast and is still closed
C39_ClosedStaysClosed ==
    \E p \in Procs :
        /\ EndedCast(p, "ElectionNotOpen")
        /\ elections[procs[p].eid].status = "closed"
        /\ \E k \in 1..Len(audit_log) :
              audit_log[k].event_type = "election_closed"
                 /\ audit_log[k].election_id = procs[p].eid

(***************************************************************************)
(* C40 (SpecPages).                                                        *)
(***************************************************************************)
\* the call of the bridge in flight in slot p was made by a voter page
PageCall(p) == procs[p].op = "issue" /\ procs[p].flow \in VoterPages

\* the page had the token validated and its identity verification confirmed
CheckedBeforeBridge(p) ==
    /\ procs[p].checks = {"validate", "mfa"}
    /\ TokenIndex(procs[p].tok) # 0
    /\ MfaVerified(procs[p].tok)

\* a slot calls the bridge from the last step of its page, with both checks made
CallsFromCheckedPage(t) ==
    \E p \in Procs :
        /\ procs[p].op \in VoterPages /\ procs[p].pc = "acquire" /\ procs[p].tok = t
        /\ procs[p].checks = {"validate", "mfa"}
        /\ procs'[p].op = "issue" /\ procs'[p].tok = t

\* after its call of the bridge a page only renders its response and leaves
OneCallPerRequest(p) ==
    /\ PageCall(p) => procs'[p].op \in {"issue", procs[p].flow}
    /\ (procs[p].op \in VoterPages /\ procs[p].pc = "done") =>
          procs'[p] \in {procs[p], IdleProc}

\* C40 as stated: over all the requests of the voter pages, the bridge is called
\* at most once for a token, and only by a page that validated the token and saw
\* its identity verification succeed in the same request.
C40_BridgeOncePerToken ==
    /\ \A t \in VotingTokenValues : bridge_calls[t] <= 1
    /\ \A p \in Procs : PageCall(p) => CheckedBeforeBridge(p)

\* C40, amended: every request of a voter page calls the bridge at most once,
\* and only after the token validated and its identity verification succeeded in
\* that request; the bridge issues at most one credential for a token, however
\* many requests call it.
C40_BridgeAfterChecks ==
    /\ [](/\ \A p \in Procs : PageCall(p) => CheckedBeforeBridge(p)
          /\ \A t \in VotingTokenValues : Cardinality({i \in issued : i.token = t}) <= 1)
    /\ [][/\ \A t \in VotingTokenValues :
               bridge_calls'[t] # bridge_calls[t] =>
                  bridge_calls'[t] = bridge_calls[t] + 1 /\ CallsFromCheckedPage(t)
          /\ \A p \in Procs : OneCallPerRequest(p)]_vars

\* the identity form passed, the page validated the token and its one call of
\* the bridge returned the credential
C40_VerifiedPageGotCredential ==
    \E p \in Procs :
        /\ PageCall(p) /\ procs[p].flow = "verify_identity"
        /\ EndedIssue(p, "ok")
        /\ bridge_calls[procs[p].tok] = 1
        /\ \E i \in issued : i.token = procs[p].tok /\ i.ballot_token = procs[p].out

====
